---------------------------- MODULE Spec2Model ----------------------------
(***************************************************************************)
(* A model of go-config: the untyped configuration tree, DeepMerge, the    *)
(* include resolver (readConfigFile / ReadConfig) and the Config store     *)
(* (Set / GetE).                                                           *)
(*                                                                         *)
(* A Go value of type `any` held in a tree is a record                     *)
(*   [kind, sv, lv, mv]                                                    *)
(* kind = "scalar" (sv is the number), "seq" (lv is the []any), "null",    *)
(* or "map" (mv is the nested map[string]any).  A map[string]any is a      *)
(* function from key strings to such records.                              *)
(***************************************************************************)
EXTENDS Integers, Sequences, FiniteSets, TLC

VARIABLES
    dst, src, merged, mphase,     \* DeepMerge harness: arguments, result, phase
    fs,                           \* the files on disk: name -> decoded document
    paths, fullPath,              \* Config.paths, Config.fullPath
    config,                       \* Config.config, the merged tree
    readErr,                      \* what the last ReadConfig returned
    readOf,                       \* history: <<c.paths>> as the last ReadConfig saw it, <<>> before
    stk,                          \* readConfigFile step by step: the calls past the cycle check
    visited,                      \* the visited map shared by these calls
    pending,                      \* <<path>> of a call about to be entered, or <<>>
    ret,                          \* <<result>> a call has just returned, or <<>>
    seen,                         \* history: the paths readConfigFile was entered with
    defaults,                     \* Config.defaults, the fallback tree
    flags,                        \* the flags registered per key: key -> is the flag changed
    pflagSet,                     \* <<the names the bound flag set reports as changed>>, <<>> if none is bound
    env,                          \* the names of the environment variables that are set
    envPrefix,                    \* Config.envPrefix
    got,                          \* <<key, result>> of the GetE that has just returned, or <<>>
    typed,                        \* <<convention, implementation, family, key, result>> of the
                                  \* typed getter that has just returned, or <<>>
    wrote,                        \* history: <<op, key, v, tree before>> of the Set or SetDefault
                                  \* that has just returned, or <<>>
    heap,                         \* DeepMerge on map objects: the maps allocated so far, by address
    hroots,                       \* the addresses of dst, src and the returned map
    hin,                          \* history: <<dst, src>> as trees, as they were before the call
    hphase,                       \* "off", "input", "merged", "written"
    kin, kprefix,                 \* key parser harness: the key string, the prefix given to SetEnvPrefix
    kout,                         \* what KeySplit returned
    kenv,                         \* what Key.EnvKey returned
    kphase,                       \* "off", "input", "parsed", "named"
    source,                       \* Bind of one int field: <<value>> the store holds for its key, <<>> if none
    tag,                          \* the rules of the field's check tag: name -> parameter
    field,                        \* the struct field
    isChanged,                    \* bindInto's changed
    rules,                        \* the names of the rules the loop of Validate has not visited yet
    berr,                         \* what Bind returned: "" for nil, else the rule that failed
    bphase,                       \* "off", "input", "validate", "returned"
    rt,                           \* Bind of a struct: the fields of the struct type, in declaration order
    bprefix,                      \* the prefix bindInto starts with
    dest,                         \* the leaf fields of the destination, in the order bindInto reaches them
    orig,                         \* history: dest as it was when Bind was called
    pos,                          \* the leaf bindInto is at
    reads,                        \* history: the keys handed to GetValueE so far
    sret,                         \* what Bind returned: [kind, key], kind "" while it runs
    sphase,                       \* "off", "bind", "returned"
    croot,                        \* Set against GetE, two threads: the address c.config holds
    setter,                       \* the thread in Set: its arguments, its position, its m and i
    getter,                       \* the thread in GetE: its key, its position, its m and i, its result
    trail                         \* history: the trees c.config has held, the first one first

mergeVars == <<dst, src, merged, mphase>>
loadVars  == <<fs, paths, fullPath, config, readErr, readOf>>
stepVars  == <<stk, visited, pending, ret, seen>>
storeVars == <<defaults, flags, pflagSet, env, envPrefix, got, wrote, typed>>
heapVars  == <<heap, hroots, hin, hphase>>
keyVars   == <<kin, kprefix, kout, kenv, kphase>>
bindVars  == <<source, tag, field, isChanged, rules, berr, bphase>>
structVars == <<rt, bprefix, dest, orig, pos, reads, sret, sphase>>
raceVars  == <<croot, setter, getter, trail>>
laterVars == <<structVars, raceVars>>
pureVars  == <<heapVars, keyVars, bindVars, laterVars>>
vars == <<dst, src, merged, mphase, fs, paths, fullPath, config, readErr, readOf,
          stk, visited, pending, ret, seen,
          defaults, flags, pflagSet, env, envPrefix, got, wrote, typed,
          heap, hroots, hin, hphase,
          kin, kprefix, kout, kenv, kphase,
          source, tag, field, isChanged, rules, berr, bphase,
          rt, bprefix, dest, orig, pos, reads, sret, sphase,
          croot, setter, getter, trail>>

---------------------------------------------------------------------------
(* Bounds of the model *)

MaxScalar == 2          \* scalars are 1..MaxScalar
MaxPaths  == 2          \* at most MaxPaths files are registered with AddFile
MaxDepth  == 6          \* the step machine enters no call below MaxDepth open calls

---------------------------------------------------------------------------
(* Values and trees *)

EmptyTree == [n \in {} |-> 0]

Scalar(n) == [kind |-> "scalar", sv |-> n, lv |-> <<>>, mv |-> EmptyTree]
SeqV(s)   == [kind |-> "seq",    sv |-> 0, lv |-> s,    mv |-> EmptyTree]
Null      == [kind |-> "null",   sv |-> 0, lv |-> <<>>, mv |-> EmptyTree]
MapV(t)   == [kind |-> "map",    sv |-> 0, lv |-> <<>>, mv |-> t]

Names == {"a", "b"}

Scalars == {Scalar(n) : n \in 1..MaxScalar}
SeqVals == {SeqV(<<n>>) : n \in 1..MaxScalar} \cup {SeqV(<<1, 2>>)}
Leaves  == Scalars \cup SeqVals \cup {Null}

\* all trees over the key set K whose values are drawn from V
TreesOver(K, V) == UNION {[D -> V] : D \in SUBSET K}

FlatTrees == TreesOver(Names, Scalars \cup {Null})
Trees     == TreesOver(Names, Leaves \cup {MapV(t) : t \in FlatTrees})
\* a few trees one level deeper, so that a merge of nested maps recurses again
DeepTrees == {("a" :> MapV("a" :> MapV(t))) : t \in FlatTrees}

Has(t, k) == k \in DOMAIN t

---------------------------------------------------------------------------
(* map.go *)

\* isStringKeyMap: every map of the model is a map[string]any
isStringKeyMap(v) == v.kind = "map"

RECURSIVE cloneIfMap(_)
cloneIfMap(v) ==
    IF ~isStringKeyMap(v) THEN v
    ELSE MapV([kk \in DOMAIN v.mv |->
                 IF isStringKeyMap(v.mv[kk]) THEN cloneIfMap(v.mv[kk])
                 ELSE v.mv[kk]])

RECURSIVE DeepMerge(_, _)

\* mutant: two maps at the same key are not combined, src replaces dst
mergeValuesReplace(dstVal, srcVal) == cloneIfMap(srcVal)

\* mutant: an existing non-map dst value is kept
mergeValuesKeepDst(dstVal, srcVal) ==
    IF isStringKeyMap(dstVal) /\ isStringKeyMap(srcVal)
    THEN MapV(DeepMerge(dstVal.mv, srcVal.mv))
    ELSE IF isStringKeyMap(srcVal) THEN cloneIfMap(srcVal) ELSE dstVal

mergeValues(dstVal, srcVal) ==
    IF isStringKeyMap(dstVal) /\ isStringKeyMap(srcVal)
    THEN MapV(DeepMerge(dstVal.mv, srcVal.mv))
    ELSE cloneIfMap(srcVal)

\* A nil map reads as the empty map (dst == nil becomes {}, src == nil
\* returns dst), so nil and {} are the same tree here.
DeepMerge(d, s) ==
    [k \in DOMAIN d \cup DOMAIN s |->
        IF Has(s, k)
        THEN IF Has(d, k) THEN mergeValues(d[k], s[k]) ELSE cloneIfMap(s[k])
        ELSE d[k]]

---------------------------------------------------------------------------
(* Files and paths *)

ConfDir     == "/etc/app"
FileNames   == {"main.json", "a.yaml", "b.yaml"}   \* exist and decode
BadName     == "bad.json"                          \* exists, does not decode
MissingName == "missing.toml"                      \* no such file

\* A path argument: an absolute path dir/name, or a name relative to a base.
AbsPath(d, n) == [abs |-> TRUE,  dir |-> d,  name |-> n]
RelPath(n)    == [abs |-> FALSE, dir |-> "", name |-> n]
Home(n)       == AbsPath(ConfDir, n)

AllPaths == {Home(n) : n \in FileNames \cup {BadName, MissingName}}

\* An item of an include list: a string (a path) or a value of another type.
StrItem(n) == [str |-> TRUE,  ref |-> n]
OtherItem  == [str |-> FALSE, ref |-> ""]

\* The value of a document's top-level `include` key.
NoInclude      == [form |-> "absent", items |-> <<>>]
IncString(n)   == [form |-> "string", items |-> <<StrItem(n)>>]
IncList(items) == [form |-> "list",   items |-> items]
IncOther       == [form |-> "other",  items |-> <<>>]

\* A decoded document: its `include` value and the rest of its top level.
Doc(inc, own) == [include |-> inc, own |-> own]

\* path.go FindPath, for plain names: "" is an error, an absolute input is
\* returned as it is, a relative one is joined to base.
FindPath(base, input) ==
    IF input.name = "" THEN [err |-> TRUE, path |-> input]
    ELSE IF input.abs THEN [err |-> FALSE, path |-> input]
    ELSE [err |-> FALSE, path |-> AbsPath(base, input.name)]

\* os.Stat(path) succeeds
Exists(path) == path.dir = ConfDir /\ path.name \in FileNames \cup {BadName}

\* Config.parse: "notexist" when Stat fails, "decode" when the decoder
\* fails, otherwise the decoded document.
parse(path) ==
    IF ~Exists(path) THEN [err |-> "notexist", doc |-> Doc(NoInclude, EmptyTree)]
    ELSE IF path.name = BadName THEN [err |-> "decode", doc |-> Doc(NoInclude, EmptyTree)]
    ELSE [err |-> "", doc |-> fs[path.name]]

---------------------------------------------------------------------------
(* config.go: the include resolver *)

LoadErr(e, p) == [err |-> e,  errPath |-> p, tree |-> EmptyTree]
LoadOk(t)     == [err |-> "", errPath |-> RelPath(""), tree |-> t]

RECURSIVE readConfigFile(_, _)

\* Config.resolveInclude
resolveInclude(baseDir, include, vis) ==
    LET f == FindPath(baseDir, RelPath(include)) IN
    IF f.err THEN LoadErr("path", RelPath(include))
    ELSE readConfigFile(f.path, vis)

\* the loop over the include items: each string item is resolved and, when
\* it loads, merged into base; a failure is logged and skipped
RECURSIVE includeLoop(_, _, _, _)

\* mutant: the first include that fails ends the loop
includeLoopAbort(items, dir, vis, base) ==
    IF items = <<>> THEN base
    ELSE LET item == Head(items) IN
         IF ~item.str THEN includeLoop(Tail(items), dir, vis, base)
         ELSE LET included == resolveInclude(dir, item.ref, vis) IN
              IF included.err # "" THEN base
              ELSE includeLoop(Tail(items), dir, vis,
                               DeepMerge(base, included.tree))

\* mutant: an include is merged under what is already there
includeLoopFirstWins(items, dir, vis, base) ==
    IF items = <<>> THEN base
    ELSE LET item == Head(items) IN
         IF ~item.str THEN includeLoop(Tail(items), dir, vis, base)
         ELSE LET included == resolveInclude(dir, item.ref, vis) IN
              IF included.err # ""
              THEN includeLoop(Tail(items), dir, vis, base)
              ELSE includeLoop(Tail(items), dir, vis,
                               DeepMerge(included.tree, base))

includeLoop(items, dir, vis, base) ==
    IF items = <<>> THEN base
    ELSE LET item == Head(items) IN
         IF ~item.str THEN includeLoop(Tail(items), dir, vis, base)
         ELSE LET included == resolveInclude(dir, item.ref, vis) IN
              IF included.err # ""
              THEN includeLoop(Tail(items), dir, vis, base)
              ELSE includeLoop(Tail(items), dir, vis,
                               DeepMerge(base, included.tree))

\* mutant: the includes are merged over the file's own content
finishFileIncludesWin(base, own) == DeepMerge(own, base)

\* the last step of readConfigFile: DeepMerge(base, m)
finishFile(base, own) == DeepMerge(base, own)

\* the include items of a decoded document: a string, or the items of a
\* list; an include of any other type is dropped without being read
IncludeItems(doc) ==
    IF doc.include.form \in {"string", "list"} THEN doc.include.items ELSE <<>>

\* mutant: an include that fails makes the including file fail
readConfigFileStrict(path, vis) ==
    IF path \in vis THEN LoadErr("cycle", path)
    ELSE LET p == parse(path) IN
         IF p.err # "" THEN LoadErr(p.err, path)
         ELSE LET items == IncludeItems(p.doc)
                  bad   == {i \in DOMAIN items : items[i].str /\
                              resolveInclude(path.dir, items[i].ref,
                                             vis \cup {path}).err # ""}
                  base  == includeLoop(items, path.dir,
                                       vis \cup {path}, EmptyTree)
              IN IF bad # {} THEN LoadErr("include", path)
                 ELSE LoadOk(finishFile(base, p.doc.own))

\* Config.readConfigFile.  `vis` (the visited map) holds the paths of the calls in
\* progress: the code adds path on entry and deletes it on every return.
readConfigFile(path, vis) ==
    IF path \in vis THEN LoadErr("cycle", path)
    ELSE LET p == parse(path) IN
         IF p.err # "" THEN LoadErr(p.err, path)
         ELSE LET base == includeLoop(IncludeItems(p.doc), path.dir,
                                      vis \cup {path}, EmptyTree)
              IN LoadOk(finishFile(base, p.doc.own))

\* Config.GetConfigFiles for files registered with AddFile: the path is
\* resolved and kept when it exists.
RECURSIVE GetConfigFiles(_)
GetConfigFiles(ps) ==
    IF ps = <<>> THEN <<>>
    ELSE LET f == FindPath("", Head(ps)) IN
         IF ~f.err /\ Head(ps) \in fullPath /\ Exists(f.path)
         THEN <<f.path>> \o GetConfigFiles(Tail(ps))
         ELSE GetConfigFiles(Tail(ps))

\* the loop of ReadConfig over the files: a file that fails is skipped
RECURSIVE readLoop(_, _)

\* mutant: the first file that fails ends the loop
readLoopAbort(files, cfg) ==
    IF files = <<>> THEN cfg
    ELSE LET r == readConfigFile(Head(files), {}) IN
         IF r.err # "" THEN cfg
         ELSE readLoop(Tail(files), DeepMerge(cfg, r.tree))

readLoop(files, cfg) ==
    IF files = <<>> THEN cfg
    ELSE LET r == readConfigFile(Head(files), {}) IN
         IF r.err # "" THEN readLoop(Tail(files), cfg)
         ELSE readLoop(Tail(files), DeepMerge(cfg, r.tree))

\* the files of a list that load
Loaded(files) == SelectSeq(files, LAMBDA p : readConfigFile(p, {}).err = "")

\* The error ReadConfig returns: set when no file at all was loaded.
ReadConfigErr(files) == Loaded(files) = <<>>

---------------------------------------------------------------------------
(* The documents the files may hold *)

\* The own content of the files.  The scalar tells the file a value comes
\* from: 1 main.json, 2 a.yaml, 3 b.yaml.  Key "a" at the top stands for
\* `app`, below it "a" for `port` and "b" for `env`.
MainOwn ==
    { EmptyTree,
      ("a" :> Scalar(1)),
      ("a" :> MapV("a" :> Scalar(1))) @@ ("b" :> SeqV(<<1>>)) }

AOwn ==
    { ("a" :> MapV(("a" :> Scalar(2)) @@ ("b" :> Scalar(2)))),
      ("a" :> MapV(("b" :> Scalar(2)) @@ ("include" :> SeqV(<<2>>))))
          @@ ("b" :> Scalar(2)) }

BOwn ==
    { ("a" :> MapV("a" :> Scalar(3))) @@ ("b" :> SeqV(<<3>>)) }

MainIncludes ==
    { NoInclude, IncOther,
      IncString("main.json"), IncString("a.yaml"),
      IncList(<<StrItem("a.yaml"), StrItem("b.yaml")>>),
      IncList(<<StrItem("b.yaml"), StrItem("a.yaml")>>),
      IncList(<<StrItem("main.json"), StrItem("a.yaml")>>),
      IncList(<<StrItem("a.yaml"), StrItem("main.json")>>),
      IncList(<<StrItem("a.yaml"), StrItem("a.yaml")>>),
      IncList(<<StrItem(BadName), StrItem("a.yaml")>>),
      IncList(<<StrItem("a.yaml"), StrItem(MissingName), StrItem("b.yaml")>>),
      IncList(<<StrItem(""), StrItem("b.yaml")>>),
      IncList(<<OtherItem, StrItem("b.yaml")>>) }

AIncludes ==
    { NoInclude,
      IncString("main.json"), IncString("a.yaml"), IncString("b.yaml"),
      IncList(<<StrItem("main.json"), StrItem("b.yaml")>>),
      IncList(<<StrItem("b.yaml"), StrItem("main.json")>>) }

BIncludes ==
    { NoInclude, IncString("a.yaml"), IncString("main.json") }

FileSystems ==
    { ("main.json" :> Doc(im, om)) @@ ("a.yaml" :> Doc(ia, oa))
        @@ ("b.yaml" :> Doc(ib, ob)) :
        im \in MainIncludes, om \in MainOwn,
        ia \in AIncludes,    oa \in AOwn,
        ib \in BIncludes,    ob \in BOwn }

\* the paths a program registers
Registrable == {Home("main.json"), Home("a.yaml"), Home(BadName), Home(MissingName)}

---------------------------------------------------------------------------
(* The store: registering files and reading them *)

HeapIdle ==
    /\ heap = <<>>
    /\ hroots = <<>>
    /\ hin = <<>>
    /\ hphase = "off"

KeyIdle ==
    /\ kin = <<>>
    /\ kprefix = <<>>
    /\ kout = <<>>
    /\ kenv = <<>>
    /\ kphase = "off"

BindIdle ==
    /\ source = <<>>
    /\ tag = <<>>
    /\ field = 0
    /\ isChanged = FALSE
    /\ rules = {}
    /\ berr = ""
    /\ bphase = "off"

StructIdle ==
    /\ rt = <<>>
    /\ bprefix = <<>>
    /\ dest = <<>>
    /\ orig = <<>>
    /\ pos = 0
    /\ reads = <<>>
    /\ sret = <<>>
    /\ sphase = "off"

RaceIdle ==
    /\ croot = 0
    /\ setter = <<>>
    /\ getter = <<>>
    /\ trail = <<>>

LaterIdle == StructIdle /\ RaceIdle

PureIdle == HeapIdle /\ KeyIdle /\ BindIdle /\ LaterIdle

\* New(): no defaults, no flags, no prefix
StoreIdle ==
    /\ defaults = EmptyTree
    /\ flags = EmptyTree
    /\ pflagSet = <<>>
    /\ env = {}
    /\ envPrefix = <<>>
    /\ got = <<>>
    /\ wrote = <<>>
    /\ typed = <<>>

StepIdle ==
    /\ stk = <<>>
    /\ visited = {}
    /\ pending = <<>>
    /\ ret = <<>>
    /\ seen = {}

LoadIdle ==
    /\ fs = [n \in FileNames |-> Doc(NoInclude, EmptyTree)]
    /\ paths = <<>>
    /\ fullPath = {}
    /\ config = EmptyTree
    /\ readErr = FALSE
    /\ readOf = <<>>

LoadInit ==
    /\ fs \in FileSystems
    /\ paths = <<>>
    /\ fullPath = {}
    /\ config = EmptyTree            \* New(): config: make(map[string]any)
    /\ readErr = FALSE
    /\ readOf = <<>>
    /\ dst = EmptyTree /\ src = EmptyTree /\ merged = EmptyTree
    /\ mphase = "off"
    /\ PureIdle
    /\ StepIdle
    /\ StoreIdle

\* Config.AddFile
AddFile(p) ==
    /\ Len(paths) < MaxPaths
    /\ fullPath' = fullPath \cup {p}
    /\ paths' = Append(paths, p)
    /\ UNCHANGED <<fs, config, readErr, readOf>>
    /\ UNCHANGED <<mergeVars, pureVars>>
    /\ UNCHANGED stepVars
    /\ UNCHANGED storeVars

\* mutant: the files are merged into the tree the store holds
ReadConfigKeep ==
    /\ LET files == GetConfigFiles(paths) IN
        /\ config' = readLoop(files, config)
        /\ readErr' = ReadConfigErr(files)
    /\ readOf' = <<paths>>
    /\ UNCHANGED <<fs, paths, fullPath>>
    /\ UNCHANGED <<mergeVars, pureVars>>
    /\ UNCHANGED stepVars
    /\ UNCHANGED storeVars

\* Config.ReadConfig
ReadConfig ==
    /\ LET files == GetConfigFiles(paths) IN
        /\ config' = readLoop(files, EmptyTree)
        /\ readErr' = ReadConfigErr(files)
    /\ readOf' = <<paths>>
    /\ UNCHANGED <<fs, paths, fullPath>>
    /\ UNCHANGED <<mergeVars, pureVars>>
    /\ UNCHANGED stepVars
    /\ UNCHANGED storeVars

AddSomeFile == \E p \in Registrable : AddFile(p)

LoadNext == AddSomeFile \/ ReadConfig

SpecLoad == LoadInit /\ [][LoadNext]_vars

---------------------------------------------------------------------------
(* readConfigFile step by step: one call of readConfigFile on a top-level *)
(* path, with the visited map as the code mutates it.  A frame of stk is  *)
(* a call that passed the cycle check and decoded its file: its path, the *)
(* include items still to resolve, the accumulator base and the file's    *)
(* own content m.                                                         *)

Frame(path, items, base, own) ==
    [path |-> path, items |-> items, base |-> base, own |-> own]

Top == stk[Len(stk)]
SetTop(f) == [stk EXCEPT ![Len(stk)] = f]

\* mutant: the cycle check is missing
inVisitedNever(path, vis) == FALSE

\* visited[path]
inVisited(path, vis) == path \in vis

StepInit ==
    /\ fs \in FileSystems
    /\ pending \in {<<Home(n)>> : n \in FileNames}
    /\ stk = <<>>
    /\ visited = {}
    /\ ret = <<>>
    /\ seen = {}
    /\ paths = <<>> /\ fullPath = {} /\ config = EmptyTree
    /\ readErr = FALSE /\ readOf = <<>>
    /\ dst = EmptyTree /\ src = EmptyTree /\ merged = EmptyTree
    /\ mphase = "off"
    /\ PureIdle
    /\ StoreIdle

\* entry of readConfigFile up to the include loop: the cycle check,
\* visited[path] = true, parse; an error return runs the deferred delete
Enter ==
    /\ pending # <<>>
    /\ Len(stk) < MaxDepth
    /\ LET path == pending[1] IN
        /\ seen' = seen \cup {path}
        /\ pending' = <<>>
        /\ IF inVisited(path, visited)
           THEN /\ ret' = <<LoadErr("cycle", path)>>
                /\ UNCHANGED <<stk, visited>>
           ELSE LET p == parse(path) IN
                IF p.err # ""
                THEN /\ ret' = <<LoadErr(p.err, path)>>
                     /\ visited' = (visited \cup {path}) \ {path}
                     /\ UNCHANGED stk
                ELSE /\ stk' = Append(stk, Frame(path, IncludeItems(p.doc),
                                                 EmptyTree, p.doc.own))
                     /\ visited' = visited \cup {path}
                     /\ UNCHANGED ret
    /\ UNCHANGED <<mergeVars, pureVars, loadVars, storeVars>>

\* the next include item: a non-string item is passed over, a string item
\* goes through resolveInclude: FindPath fails, or readConfigFile is called
NextInclude ==
    /\ stk # <<>> /\ pending = <<>> /\ ret = <<>>
    /\ Top.items # <<>>
    /\ LET item == Head(Top.items)
           f    == FindPath(Top.path.dir, RelPath(item.ref))
       IN IF ~item.str
          THEN /\ stk' = SetTop([Top EXCEPT !.items = Tail(@)])
               /\ UNCHANGED <<pending, ret>>
          ELSE IF f.err
          THEN /\ ret' = <<LoadErr("path", RelPath(item.ref))>>
               /\ UNCHANGED <<stk, pending>>
          ELSE /\ pending' = <<f.path>>
               /\ UNCHANGED <<stk, ret>>
    /\ UNCHANGED <<visited, seen>>
    /\ UNCHANGED <<mergeVars, pureVars, loadVars, storeVars>>

\* resolveInclude has returned to the include loop: an error is logged,
\* a tree is merged into base
AfterInclude ==
    /\ stk # <<>> /\ ret # <<>>
    /\ stk' = SetTop([Top EXCEPT
                        !.items = Tail(@),
                        !.base  = IF ret[1].err = "" THEN DeepMerge(@, ret[1].tree)
                                  ELSE @])
    /\ ret' = <<>>
    /\ UNCHANGED <<visited, pending, seen>>
    /\ UNCHANGED <<mergeVars, pureVars, loadVars, storeVars>>

\* the mutated return: the deferred delete is missing
ReturnKeepVisited ==
    /\ stk # <<>> /\ pending = <<>> /\ ret = <<>>
    /\ Top.items = <<>>
    /\ ret' = <<LoadOk(finishFile(Top.base, Top.own))>>
    /\ stk' = SubSeq(stk, 1, Len(stk) - 1)
    /\ UNCHANGED <<visited, pending, seen>>
    /\ UNCHANGED <<mergeVars, pureVars, loadVars, storeVars>>

\* the include loop is over: DeepMerge(base, m), the deferred delete, return
Return ==
    /\ stk # <<>> /\ pending = <<>> /\ ret = <<>>
    /\ Top.items = <<>>
    /\ ret' = <<LoadOk(finishFile(Top.base, Top.own))>>
    /\ visited' = visited \ {Top.path}
    /\ stk' = SubSeq(stk, 1, Len(stk) - 1)
    /\ UNCHANGED <<pending, seen>>
    /\ UNCHANGED <<mergeVars, pureVars, loadVars, storeVars>>

StepNext == Enter \/ NextInclude \/ AfterInclude \/ Return

\* the top-level call has returned
StepsDone == stk = <<>> /\ pending = <<>> /\ ret # <<>>

\* the code runs on until the call returns
SpecSteps == StepInit /\ [][StepNext]_vars /\ WF_vars(StepNext)

---------------------------------------------------------------------------
(* DeepMerge applied to every pair of bounded trees *)

MergeInit ==
    /\ dst \in Trees \cup DeepTrees
    /\ src \in Trees \cup DeepTrees
    /\ merged = EmptyTree
    /\ mphase = "input"
    /\ PureIdle
    /\ LoadIdle
    /\ StepIdle
    /\ StoreIdle

Merge ==
    /\ mphase = "input"
    /\ merged' = DeepMerge(dst, src)
    /\ mphase' = "merged"
    /\ UNCHANGED <<dst, src>>
    /\ UNCHANGED pureVars
    /\ UNCHANGED loadVars
    /\ UNCHANGED stepVars
    /\ UNCHANGED storeVars

MergeNext == Merge

SpecMerge == MergeInit /\ [][MergeNext]_vars


---------------------------------------------------------------------------
(* map.go on map objects.  A map[string]any is an object with an address; *)
(* heap[a] is the content of the map at address a.  A value held in a map *)
(* is a scalar, nil, a []any (its elements: scalars and maps) or the      *)
(* address of a map.                                                      *)

HScalar(n) == [kind |-> "scalar", sv |-> n, lv |-> <<>>, ref |-> 0]
HNull      == [kind |-> "null",   sv |-> 0, lv |-> <<>>, ref |-> 0]
HSeq(s)    == [kind |-> "seq",    sv |-> 0, lv |-> s,    ref |-> 0]
HRef(a)    == [kind |-> "ref",    sv |-> 0, lv |-> <<>>, ref |-> a]

\* make(map[string]any) and its filling: the new map gets the next address
makeMap(h, m) == [h |-> Append(h, m), a |-> Len(h) + 1]

\* m[k] = v on the map at address a
Store(h, a, k, v) ==
    [h EXCEPT ![a] = [x \in DOMAIN h[a] \cup {k} |-> IF x = k THEN v ELSE h[a][x]]]

RECURSIVE allocValue(_, _)
RECURSIVE allocFields(_, _, _, _)
RECURSIVE allocElems(_, _, _)

\* the decoded tree t built as objects, field by field
allocFields(h, t, keys, acc) ==
    IF keys = {} THEN [h |-> h, m |-> acc]
    ELSE LET k == CHOOSE x \in keys : TRUE
             r == allocValue(h, t[k])
         IN allocFields(r.h, t, keys \ {k},
                        [x \in DOMAIN acc \cup {k} |-> IF x = k THEN r.v ELSE acc[x]])

allocElems(h, elems, acc) ==
    IF elems = <<>> THEN [h |-> h, s |-> acc]
    ELSE LET r == allocValue(h, Head(elems))
         IN allocElems(r.h, Tail(elems), Append(acc, r.v))

allocValue(h, v) ==
    IF v.kind = "map"
    THEN LET r == allocFields(h, v.mv, DOMAIN v.mv, EmptyTree)
             n == makeMap(r.h, r.m)
         IN [h |-> n.h, v |-> HRef(n.a)]
    ELSE IF v.kind = "seq"
    THEN LET r == allocElems(h, v.lv, <<>>)
         IN [h |-> r.h, v |-> HSeq(r.s)]
    ELSE IF v.kind = "null" THEN [h |-> h, v |-> HNull]
    ELSE [h |-> h, v |-> HScalar(v.sv)]

RECURSIVE TreeOf(_, _)
\* the tree an object holds, read through the addresses
ValueOf(h, v) ==
    IF v.kind = "ref" THEN MapV(TreeOf(h, v.ref))
    ELSE IF v.kind = "seq"
    THEN SeqV([i \in DOMAIN v.lv |->
                  IF v.lv[i].kind = "ref" THEN MapV(TreeOf(h, v.lv[i].ref))
                  ELSE Scalar(v.lv[i].sv)])
    ELSE IF v.kind = "null" THEN Null
    ELSE Scalar(v.sv)

TreeOf(h, a) == [k \in DOMAIN h[a] |-> ValueOf(h, h[a][k])]

\* toStringAnyMap of a map[string]any: a new map with the same entries
toStringAnyMap(h, v) == makeMap(h, h[v.ref])

RECURSIVE hCloneIfMap(_, _)
RECURSIVE hCloneFields(_, _, _, _)

\* the loop of cloneIfMap over the entries of m, filling out
hCloneFields(h, m, keys, out) ==
    IF keys = {} THEN h
    ELSE LET kk == CHOOSE x \in keys : TRUE
             vv == h[m][kk]
         IN IF vv.kind = "ref"
            THEN LET c == hCloneIfMap(h, vv)
                 IN hCloneFields(Store(c.h, out, kk, c.v), m, keys \ {kk}, out)
            ELSE hCloneFields(Store(h, out, kk, vv), m, keys \ {kk}, out)

\* the mutated cloneIfMap: the map itself is handed out
hCloneIfMapShare(h, v) == [h |-> h, v |-> v]

hCloneIfMap(h, v) ==
    IF v.kind # "ref" THEN [h |-> h, v |-> v]
    ELSE LET m   == toStringAnyMap(h, v)
             out == makeMap(m.h, EmptyTree)
         IN [h |-> hCloneFields(out.h, m.a, DOMAIN out.h[m.a], out.a), v |-> HRef(out.a)]

RECURSIVE hDeepMerge(_, _, _)
RECURSIVE hMergeFields(_, _, _, _)

hMergeValues(h, dstVal, srcVal) ==
    IF dstVal.kind = "ref" /\ srcVal.kind = "ref"
    THEN LET md == toStringAnyMap(h, dstVal)
             ms == toStringAnyMap(md.h, srcVal)
         IN [h |-> hDeepMerge(ms.h, md.a, ms.a), v |-> HRef(md.a)]
    ELSE hCloneIfMap(h, srcVal)

\* the loop of DeepMerge over the entries of src
hMergeFields(h, d, s, keys) ==
    IF keys = {} THEN h
    ELSE LET k == CHOOSE x \in keys : TRUE
             r == IF k \in DOMAIN h[d]
                  THEN hMergeValues(h, h[d][k], h[s][k])
                  ELSE hCloneIfMap(h, h[s][k])
         IN hMergeFields(Store(r.h, d, k, r.v), d, s, keys \ {k})

\* DeepMerge(dst, src) on two maps that are not nil: the heap it leaves;
\* the map it returns is dst
hDeepMerge(h, d, s) == hMergeFields(h, d, s, DOMAIN h[s])

RECURSIVE ReachMaps(_, _)
\* the addresses of the maps reachable from the map at address a, through
\* nested maps and through the elements of sequences
RefsOf(v) ==
    IF v.kind = "ref" THEN {v.ref}
    ELSE {v.lv[i].ref : i \in {j \in DOMAIN v.lv : v.lv[j].kind = "ref"}}

ReachMaps(h, a) ==
    {a} \cup UNION {ReachMaps(h, b) : b \in UNION {RefsOf(h[a][k]) : k \in DOMAIN h[a]}}

\* the trees DeepMerge is given
HElem   == "x" :> Scalar(1)
HLeaves == {Scalar(1), SeqV(<<Scalar(1)>>), SeqV(<<MapV(HElem)>>)}
HFlat   == TreesOver({"a"}, HLeaves)
HeapTrees == TreesOver(Names, HLeaves \cup {MapV(t) : t \in HFlat})

HeapInit ==
    /\ hin \in HeapTrees \X HeapTrees
    /\ LET d == allocValue(<<>>, MapV(hin[1]))
           s == allocValue(d.h, MapV(hin[2]))
       IN /\ heap = s.h
          /\ hroots = [dst |-> d.v.ref, src |-> s.v.ref, res |-> 0]
    /\ hphase = "input"
    /\ KeyIdle
    /\ BindIdle
    /\ LaterIdle
    /\ dst = EmptyTree /\ src = EmptyTree /\ merged = EmptyTree
    /\ mphase = "off"
    /\ LoadIdle
    /\ StepIdle
    /\ StoreIdle

HeapFrame ==
    /\ UNCHANGED <<dst, src, merged, mphase>>
    /\ UNCHANGED keyVars
    /\ UNCHANGED bindVars
    /\ UNCHANGED laterVars
    /\ UNCHANGED loadVars
    /\ UNCHANGED stepVars
    /\ UNCHANGED storeVars

\* result := DeepMerge(dst, src)
HeapMerge ==
    /\ hphase = "input"
    /\ heap' = hDeepMerge(heap, hroots.dst, hroots.src)
    /\ hroots' = [hroots EXCEPT !.res = hroots.dst]
    /\ hphase' = "merged"
    /\ UNCHANGED hin
    /\ HeapFrame

\* a later write in place into a map of the result: m[k] = v
HeapWrite ==
    /\ hphase = "merged"
    /\ \E a \in ReachMaps(heap, hroots.res), k \in {"a", "x"} :
          heap' = Store(heap, a, k, HScalar(MaxScalar))
    /\ hphase' = "written"
    /\ UNCHANGED <<hroots, hin>>
    /\ HeapFrame

HeapNext == HeapMerge \/ HeapWrite

SpecHeap == HeapInit /\ [][HeapNext]_vars

---------------------------------------------------------------------------
(* Claims about DeepMerge *)

SharedKeys == DOMAIN dst \cap DOMAIN src

\* C9: for every key k present in both trees where src[k] is not a nested
\* map (a scalar, a sequence or null), the merged tree holds exactly src[k]
\* at k: the src value replaces the dst value wholly and a sequence is
\* never combined element-wise with the dst value.
C9_SrcReplaces ==
    mphase = "merged" =>
        \A k \in SharedKeys :
            ~isStringKeyMap(src[k]) => Has(merged, k) /\ merged[k] = src[k]

\* a sequence in dst meets a different, shorter sequence in src
C9_Witness ==
    /\ mphase = "merged"
    /\ Has(dst, "a") /\ dst["a"] = SeqV(<<1, 2>>)
    /\ Has(src, "a") /\ src["a"] = SeqV(<<2>>)
    /\ merged["a"] = SeqV(<<2>>)

ExampleDst == ("a" :> MapV("x" :> Scalar(1))) @@ ("b" :> Scalar(2))
ExampleSrc == ("a" :> MapV("y" :> Scalar(3))) @@ ("b" :> Scalar(4))
ExampleOut == ("a" :> MapV(("x" :> Scalar(1)) @@ ("y" :> Scalar(3)))) @@ ("b" :> Scalar(4))

\* C10: for every key k at which both trees hold nested maps, the merged
\* value at k is the merge of the two nested maps, every key of dst[k] that
\* src[k] lacks is kept with its dst value, and the documented example
\* {a:{x:1}, b:2} merged with {a:{y:3}, b:4} gives {a:{x:1,y:3}, b:4}.
C10_RecursiveLaw ==
    /\ DeepMerge(ExampleDst, ExampleSrc) = ExampleOut
    /\ mphase = "merged" =>
        \A k \in SharedKeys :
            (isStringKeyMap(dst[k]) /\ isStringKeyMap(src[k])) =>
                /\ Has(merged, k)
                /\ merged[k] = MapV(DeepMerge(dst[k].mv, src[k].mv))
                /\ \A j \in DOMAIN dst[k].mv \ DOMAIN src[k].mv :
                       Has(merged[k].mv, j) /\ merged[k].mv[j] = dst[k].mv[j]
                /\ \A j \in DOMAIN src[k].mv :
                       ~isStringKeyMap(src[k].mv[j]) =>
                           Has(merged[k].mv, j) /\ merged[k].mv[j] = src[k].mv[j]

\* both trees hold a map at "a"; dst's has a key that src's lacks
C10_Witness ==
    /\ mphase = "merged"
    /\ Has(dst, "a") /\ isStringKeyMap(dst["a"])
    /\ Has(src, "a") /\ isStringKeyMap(src["a"])
    /\ Has(dst["a"].mv, "a") /\ ~Has(src["a"].mv, "a")
    /\ Has(src["a"].mv, "b") /\ ~Has(dst["a"].mv, "b")
    /\ DOMAIN merged["a"].mv = {"a", "b"}


---------------------------------------------------------------------------
(* Reading trees by key path *)

RECURSIVE Defined(_, _)
\* the tree holds a value at the key path p (maps all the way down to it)
Defined(t, p) ==
    /\ Has(t, p[1])
    /\ \/ Len(p) = 1
       \/ isStringKeyMap(t[p[1]]) /\ Defined(t[p[1]].mv, Tail(p))

RECURSIVE At(_, _)
At(t, p) == IF Len(p) = 1 THEN t[p[1]] ELSE At(t[p[1]].mv, Tail(p))

RECURSIVE LeafPaths(_)
\* the key paths at which the tree holds a non-map value
LeafPaths(t) ==
    {<<k>> : k \in {j \in DOMAIN t : ~isStringKeyMap(t[j])}}
    \cup UNION {{<<k>> \o q : q \in LeafPaths(t[k].mv)} :
                   k \in {j \in DOMAIN t : isStringKeyMap(t[j])}}

\* merging t over a tree can change what is at p: t holds a value at p, or
\* a non-map value on the way to p
Touches(t, p) ==
    \E n \in 1..Len(p) :
        LET q == SubSeq(p, 1, n) IN
        Defined(t, q) /\ (n = Len(p) \/ ~isStringKeyMap(At(t, q)))

RECURSIVE MergeAll(_)
\* the trees of a list merged from left to right
MergeAll(ts) ==
    IF ts = <<>> THEN EmptyTree
    ELSE DeepMerge(MergeAll(SubSeq(ts, 1, Len(ts) - 1)), ts[Len(ts)])

\* config_test.go containsIncludeKey
RECURSIVE containsIncludeKey(_)
containsIncludeKey(m) ==
    \E k \in DOMAIN m :
        \/ k = "include"
        \/ isStringKeyMap(m[k]) /\ containsIncludeKey(m[k].mv)

---------------------------------------------------------------------------
(* The calls of readConfigFile that the last ReadConfig made *)

RECURSIVE CallsFrom(_, _)
\* every <<path, vis>> with which readConfigFile is entered below the
\* call readConfigFile(path, vis)
CallsFrom(path, vis) ==
    {<<path, vis>>} \cup
    IF path \in vis \/ parse(path).err # "" THEN {}
    ELSE LET items == IncludeItems(parse(path).doc) IN
         UNION { IF items[i].str /\ items[i].ref # ""
                 THEN CallsFrom(AbsPath(path.dir, items[i].ref),
                                vis \cup {path})
                 ELSE {} : i \in DOMAIN items }

ReadFiles ==
    IF readOf = <<>> THEN <<>>
    ELSE SelectSeq(readOf[1], LAMBDA p : Exists(p))

Calls == UNION {CallsFrom(ReadFiles[i], {}) : i \in DOMAIN ReadFiles}

\* the calls that get as far as the includes: no cycle, the file decodes
Entered == {c \in Calls : c[1] \notin c[2] /\ parse(c[1]).err = ""}

OwnOf(c)   == fs[c[1].name].own
ItemsOf(c) == IncludeItems(fs[c[1].name])
Result(c)  == readConfigFile(c[1], c[2])

\* what include i of call c loads
IncResult(c, i) == resolveInclude(c[1].dir, ItemsOf(c)[i].ref, c[2] \cup {c[1]})
StrIdx(c)  == {i \in DOMAIN ItemsOf(c) : ItemsOf(c)[i].str}
GoodIdx(c) == {i \in StrIdx(c) : IncResult(c, i).err = ""}
BadIdx(c)  == StrIdx(c) \ GoodIdx(c)
\* the includes of c that close a cycle
CycleIdx(c) == {i \in StrIdx(c) :
                  AbsPath(c[1].dir, ItemsOf(c)[i].ref) \in c[2] \cup {c[1]}}

RECURSIVE GoodTrees(_, _)
\* the trees of the includes of c that load, in listed order, from item i on
GoodTrees(c, i) ==
    IF i > Len(ItemsOf(c)) THEN <<>>
    ELSE (IF i \in GoodIdx(c) THEN <<IncResult(c, i).tree>> ELSE <<>>)
         \o GoodTrees(c, i + 1)

\* every non-map value of the file's own content is in the result
OwnKept(c) ==
    \A p \in LeafPaths(OwnOf(c)) :
        Defined(Result(c).tree, p) /\ At(Result(c).tree, p) = At(OwnOf(c), p)

\* every non-map value of an include that loads is in the result, unless a
\* later include or the file's own content writes over it
IncludesKept(c) ==
    \A i \in GoodIdx(c) : \A p \in LeafPaths(IncResult(c, i).tree) :
        ( /\ ~Touches(OwnOf(c), p)
          /\ \A j \in GoodIdx(c) : j > i => ~Touches(IncResult(c, j).tree, p) )
        => /\ Defined(Result(c).tree, p)
           /\ At(Result(c).tree, p) = At(IncResult(c, i).tree, p)

---------------------------------------------------------------------------
(* Claims about the include resolver *)

\* C2: for every file that readConfigFile loads, every non-map value of the
\* file's own content is in the returned tree at the same key path,
\* whatever its includes hold, and the values that only an included file
\* holds are kept.
C2_OwnContentWins ==
    \A c \in Entered :
        Result(c).err = "" => OwnKept(c) /\ IncludesKept(c)

\* main.json {include: a.yaml, app: {port: 1}}, a.yaml app: {port: 2, env: 2}
C2_Witness ==
    /\ readOf = << <<Home("main.json")>> >>
    /\ fs["main.json"].include = IncString("a.yaml")
    /\ Defined(fs["main.json"].own, <<"a", "a">>)
    /\ fs["a.yaml"] = Doc(NoInclude, ("a" :> MapV(("a" :> Scalar(2)) @@ ("b" :> Scalar(2)))))
    /\ config["a"] = MapV(("a" :> Scalar(1)) @@ ("b" :> Scalar(2)))

\* C3: when two includes of one list both load and both give a key a
\* non-map value, the file itself does not hold the key and no include
\* listed after them holds it, the result has the value of the later one.
C3_LaterIncludeWins ==
    \A c \in Entered : \A i, j \in GoodIdx(c) : \A k \in {"a", "b", "include"} :
        LET ti == IncResult(c, i).tree
            tj == IncResult(c, j).tree
        IN ( /\ i < j
             /\ Has(ti, k) /\ ~isStringKeyMap(ti[k])
             /\ Has(tj, k) /\ ~isStringKeyMap(tj[k])
             /\ ~Has(OwnOf(c), k)
             /\ \A l \in GoodIdx(c) : l > j => ~Has(IncResult(c, l).tree, k) )
           => /\ Result(c).err = ""
              /\ Has(Result(c).tree, k) /\ Result(c).tree[k] = tj[k]

\* main.json includes a.yaml (b: 2) and then b.yaml (b: [3])
C3_Witness ==
    /\ readOf = << <<Home("main.json")>> >>
    /\ fs["main.json"].include = IncList(<<StrItem("a.yaml"), StrItem("b.yaml")>>)
    /\ ~Has(fs["main.json"].own, "b")
    /\ fs["a.yaml"].include = NoInclude /\ Has(fs["a.yaml"].own, "b")
    /\ fs["a.yaml"].own["b"] = Scalar(2)
    /\ fs["b.yaml"].include = NoInclude
    /\ config["b"] = SeqV(<<3>>)

\* C4: an include that names a file already being loaded gives a cycle
\* error with that path, and only this include is lost: the file that
\* holds it still loads, with its own content and with every other include
\* that names a readable file outside the chain.
C4_CycleEdgeOnly ==
    /\ \A c \in Calls : c[1] \in c[2] => Result(c) = LoadErr("cycle", c[1])
    /\ \A c \in Entered :
        CycleIdx(c) # {} =>
            /\ Result(c).err = ""
            /\ \A i \in CycleIdx(c) :
                   /\ IncResult(c, i).err = "cycle"
                   /\ IncResult(c, i).errPath = AbsPath(c[1].dir, ItemsOf(c)[i].ref)
            /\ OwnKept(c)
            /\ IncludesKept(c)
            /\ Result(c).tree = DeepMerge(MergeAll(GoodTrees(c, 1)), OwnOf(c))
    /\ \A i \in DOMAIN ReadFiles :
         (parse(ReadFiles[i]).err = "" /\
             \E c \in CallsFrom(ReadFiles[i], {}) : c[1] \in c[2])
         => readConfigFile(ReadFiles[i], {}).err = ""

\* main.json includes a.yaml, and a.yaml includes main.json and b.yaml
C4_Witness ==
    /\ readOf = << <<Home("main.json")>> >>
    /\ fs["main.json"].include = IncString("a.yaml")
    /\ fs["a.yaml"].include = IncList(<<StrItem("main.json"), StrItem("b.yaml")>>)
    /\ fs["b.yaml"].include = NoInclude
    /\ <<Home("main.json"), {Home("main.json"), Home("a.yaml")}>> \in Calls
    /\ Defined(config, <<"b">>) /\ ~readErr

\* C6: after ReadConfig the configuration tree holds no key named
\* `include` at any depth.
C6_NoIncludeKeyAnywhere ==
    readOf # <<>> => ~containsIncludeKey(config)

Loads(p) == Exists(p) /\ readConfigFile(p, {}).err = ""

---------------------------------------------------------------------------
(* Claims about the recursion of readConfigFile *)

\* the calls of readConfigFile in progress
OpenCalls == Len(stk) + Len(pending)

\* the include edges followed from the top-level call to the innermost one
IncludeDepth == IF OpenCalls = 0 THEN 0 ELSE OpenCalls - 1

\* the step machine returns what the recursive definition computes
StepsAgree ==
    StepsDone =>
        \E n \in FileNames :
            Home(n) \in seen /\ ret[1] = readConfigFile(Home(n), {})

\* C5: whatever the files include (themselves and each other too), the
\* call of readConfigFile returns, and at every moment the include
\* recursion is no deeper than the number of distinct existing files it has
\* been entered with; the calls past the cycle check are on distinct paths.
C5_TerminatesBounded ==
    /\ <>StepsDone
    /\ [](/\ IncludeDepth <= Cardinality({p \in seen : Exists(p)})
          /\ Len(stk) = Cardinality(visited)
          /\ visited = {stk[i].path : i \in DOMAIN stk}
          /\ Len(stk) <= Cardinality(FileNames))

\* main.json -> a.yaml -> b.yaml -> main.json: the call that closes the
\* cycle is three includes deep
C5_Witness ==
    /\ Len(stk) = Cardinality(FileNames)
    /\ pending = <<Home("main.json")>>
    /\ stk[1].path = Home("main.json")
    /\ visited = {Home(n) : n \in FileNames}

---------------------------------------------------------------------------
(* key_lex.go: keys.  A Go string is the sequence of its characters. *)

LowerLetters == {"a", "b", "c", "d", "e", "h", "o", "p", "s", "t"}
Digits       == {"1"}

ToUpperRune(r) ==
    CASE r = "a" -> "A" [] r = "b" -> "B" [] r = "c" -> "C" [] r = "d" -> "D"
      [] r = "e" -> "E" [] r = "h" -> "H" [] r = "o" -> "O" [] r = "p" -> "P"
      [] r = "s" -> "S" [] r = "t" -> "T" [] OTHER -> r

IsLetter(r) == r \in LowerLetters \cup {ToUpperRune(l) : l \in LowerLetters}
IsDigit(r)  == r \in Digits

ToUpper(str) == [i \in DOMAIN str |-> ToUpperRune(str[i])]

\* the characters of the keys the store is asked for
Dot     == <<".">>
KeyA    == <<"a">>
KeyAB   == <<"a", ".", "b">>
KeyOpen == <<"'", "a">>                   \* a quote that is never closed

\* buf.String() as a key of map[string]any: the strings the parts of these
\* keys spell
String(chars) ==
    CASE chars = <<"a">> -> "a"
      [] chars = <<"b">> -> "b"
      [] chars = <<".">> -> "."
      [] chars = <<>>    -> ""
      [] OTHER           -> "?"

KeyOk(ps)     == [err |-> "", parts |-> ps]
KeyErr(e, ps) == [err |-> e,  parts |-> ps]

RECURSIVE keyLoop(_, _, _, _, _, _)
\* the mutated loop: a dot splits inside quotes too
keyLoopSplitInQuotes(key, i, buf, parts, inQuotes, quoteChar) ==
    IF i > Len(key)
    THEN IF inQuotes THEN [err |-> "unclosed quote", parts |-> parts]
                     ELSE [err |-> "", parts |-> Append(parts, buf)]
    ELSE LET r == key[i] IN
         IF r \in {"'", "\""}
         THEN IF inQuotes
              THEN IF r = quoteChar
                   THEN keyLoop(key, i + 1, buf, parts, FALSE, "")
                   ELSE keyLoop(key, i + 1, Append(buf, r), parts, inQuotes, quoteChar)
              ELSE keyLoop(key, i + 1, buf, parts, TRUE, r)
         ELSE IF r = "."
         THEN keyLoop(key, i + 1, <<>>, Append(parts, buf), inQuotes, quoteChar)
         ELSE keyLoop(key, i + 1, Append(buf, r), parts, inQuotes, quoteChar)

\* the loop `for i, r := range key` of KeySplit from rune i on, and what
\* follows the loop.  The assignment to i in the escape case does not move
\* the range loop: the escaped rune is the next r as well.
keyLoop(key, i, buf, parts, inQuotes, quoteChar) ==
    IF i > Len(key)
    THEN IF inQuotes THEN KeyErr("unclosed quote", parts)
                     ELSE KeyOk(Append(parts, buf))
    ELSE LET r == key[i] IN
         IF r \in {"'", "\""}
         THEN IF inQuotes
              THEN IF r = quoteChar
                   THEN keyLoop(key, i + 1, buf, parts, FALSE, "")
                   ELSE keyLoop(key, i + 1, Append(buf, r), parts, inQuotes, quoteChar)
              ELSE keyLoop(key, i + 1, buf, parts, TRUE, r)
         ELSE IF r = "." /\ ~inQuotes
         THEN keyLoop(key, i + 1, <<>>, Append(parts, buf), inQuotes, quoteChar)
         ELSE IF r = "\\"
         THEN IF i + 1 > Len(key)
              THEN KeyErr("dangling escape", parts)
              ELSE keyLoop(key, i + 1, Append(buf, key[i + 1]), parts, inQuotes, quoteChar)
         ELSE keyLoop(key, i + 1, Append(buf, r), parts, inQuotes, quoteChar)

KeySplit(key) ==
    IF key = Dot THEN KeyOk(<<key>>)
    ELSE keyLoop(key, 1, <<>>, <<>>, FALSE, "")

sanitizeEnvKeyPart(part) ==
    LET result == [i \in DOMAIN part |->
                      IF IsLetter(part[i]) \/ IsDigit(part[i]) THEN part[i] ELSE "_"]
    IN IF Len(result) > 0 /\ IsDigit(result[1])
       THEN <<"_">> \o result
       ELSE ToUpper(result)

RECURSIVE Join(_, _)
\* strings.Join
Join(strs, sep) ==
    IF strs = <<>> THEN <<>>
    ELSE IF Len(strs) = 1 THEN strs[1]
    ELSE strs[1] \o sep \o Join(Tail(strs), sep)

\* the mutated EnvKey: the prefix is left out
EnvKeyNoPrefix(parts, prefix) ==
    Join([i \in DOMAIN parts |-> sanitizeEnvKeyPart(parts[i])], <<"_", "_">>)

EnvKey(parts, prefix) ==
    LET sanitizedParts == [i \in DOMAIN parts |-> sanitizeEnvKeyPart(parts[i])]
    IN IF prefix # <<>>
       THEN ToUpper(prefix) \o <<"_">> \o Join(sanitizedParts, <<"_", "_">>)
       ELSE Join(sanitizedParts, <<"_", "_">>)

\* strings.ReplaceAll(p, "_", "")
StripUnderscores(p) == SelectSeq(p, LAMBDA r : r # "_")

---------------------------------------------------------------------------
(* KeySplit and Key.EnvKey applied to every bounded key *)

MaxKeyLen == 3          \* the enumerated keys have at most MaxKeyLen characters

Alphabet == {"a", "1", "-", ".", "'", "\"", "\\"}

\* the keys of the documentation
KeyABC       == <<"a", ".", "b", ".", "c">>
KeyQuotedMid == <<"a", ".", "'", "b", ".", "c", "'", ".", "\"", "c", "\"">>
KeyQuotedFst == <<"'", "a", ".", "b", "'", ".", "c">>
KeyEscDot    == <<"a", "\\", ".", "b">>
KeyDbHost    == <<"d", "a", "t", "a", "b", "a", "s", "e", ".", "h", "o", "s", "t">>
DocKeys      == {KeyABC, KeyQuotedMid, KeyQuotedFst, KeyEscDot, KeyDbHost}

InputKeys == UNION {[1..n -> Alphabet] : n \in 0..MaxKeyLen} \cup DocKeys

InputPrefixes == {<<>>, <<"A", "P", "P", "_">>, <<"a", "_", "p">>}

KeyInit ==
    /\ kin \in InputKeys
    /\ kprefix \in InputPrefixes
    /\ kout = <<>>
    /\ kenv = <<>>
    /\ kphase = "input"
    /\ HeapIdle
    /\ BindIdle
    /\ LaterIdle
    /\ dst = EmptyTree /\ src = EmptyTree /\ merged = EmptyTree
    /\ mphase = "off"
    /\ LoadIdle
    /\ StepIdle
    /\ StoreIdle

KeyFrame ==
    /\ UNCHANGED <<dst, src, merged, mphase>>
    /\ UNCHANGED heapVars
    /\ UNCHANGED bindVars
    /\ UNCHANGED laterVars
    /\ UNCHANGED loadVars
    /\ UNCHANGED stepVars
    /\ UNCHANGED storeVars

\* nested, err := KeySplit(key)
KeyParse ==
    /\ kphase = "input"
    /\ kout' = <<KeySplit(kin)>>
    /\ kphase' = "parsed"
    /\ UNCHANGED <<kin, kprefix, kenv>>
    /\ KeyFrame

\* c.SetEnvPrefix(p); nested.EnvKey(c.envPrefix)
KeyEnv ==
    /\ kphase = "parsed"
    /\ kout[1].err = ""
    /\ kenv' = <<EnvKey(kout[1].parts, StripUnderscores(kprefix))>>
    /\ kphase' = "named"
    /\ UNCHANGED <<kin, kprefix, kout>>
    /\ KeyFrame

KeyNext == KeyParse \/ KeyEnv

SpecKey == KeyInit /\ [][KeyNext]_vars

---------------------------------------------------------------------------
(* config.go: the store, Set / SetDefault and GetE *)

Found(v)  == [err |-> "", val |-> v]
Failed(e) == [err |-> e,  val |-> Null]

\* the values the sources hand out
FlagValue     == Scalar(11)
PflagSetValue == Scalar(12)
EnvValue      == Scalar(13)
SetValue      == Scalar(1)
DefaultValue  == Scalar(2)

Strings(parts) == [i \in DOMAIN parts |-> String(parts[i])]

RECURSIVE setNestedKeepNonMap(_, _, _)
\* the mutated Set: a non-map value on the way is kept, nothing is written
setNestedKeepNonMap(m, nested, v) ==
    LET part == nested[1] IN
    IF Len(nested) = 1
    THEN [k \in DOMAIN m \cup {part} |-> IF k = part THEN v ELSE m[k]]
    ELSE IF Has(m, part) /\ m[part].kind # "map" THEN m
    ELSE LET subMap == IF Has(m, part) THEN m[part].mv ELSE EmptyTree
         IN [k \in DOMAIN m \cup {part} |->
                IF k = part THEN MapV(setNestedKeepNonMap(subMap, Tail(nested), v)) ELSE m[k]]

RECURSIVE setNestedAlone(_, _, _)
\* the mutated Set: every map on the way is made anew and holds the path only
setNestedAlone(m, nested, v) ==
    LET part == nested[1] IN
    IF Len(nested) = 1
    THEN [k \in DOMAIN m \cup {part} |-> IF k = part THEN v ELSE m[k]]
    ELSE [k \in DOMAIN m \cup {part} |->
             IF k = part THEN MapV(setNestedAlone(EmptyTree, Tail(nested), v)) ELSE m[k]]

RECURSIVE setNested(_, _, _)
\* the loop of Set and its final assignment: intermediate maps are made
\* where there is none, a non-map on the way is replaced by a new map
setNested(m, nested, v) ==
    LET part == nested[1] IN
    IF Len(nested) = 1
    THEN [k \in DOMAIN m \cup {part} |-> IF k = part THEN v ELSE m[k]]
    ELSE LET subMap == IF Has(m, part) /\ m[part].kind = "map"
                       THEN m[part].mv ELSE EmptyTree
         IN [k \in DOMAIN m \cup {part} |->
                IF k = part THEN MapV(setNested(subMap, Tail(nested), v)) ELSE m[k]]

\* the tree Set leaves in the field it writes (c.config, or c.defaults for
\* SetDefault)
setTree(tree, key, v) ==
    IF key = Dot /\ v.kind # "map" THEN tree
    ELSE LET m == IF key = Dot THEN v.mv ELSE tree
             nested == KeySplit(key)
         IN IF nested.err # "" THEN m
            ELSE setNested(m, Strings(nested.parts), v)

\* Set returns nil
setOk(key, v) ==
    IF key = Dot THEN v.kind = "map" ELSE KeySplit(key).err = ""

RECURSIVE lookupTreeShallow(_, _)
\* the mutated lookup: a non-map on the way is handed out as the value
lookupTreeShallow(m, nested) ==
    LET part == nested[1] IN
    IF ~Has(m, part) THEN Failed("key not found")
    ELSE IF Len(nested) = 1 THEN Found(m[part])
    ELSE IF m[part].kind # "map" THEN Found(m[part])
    ELSE lookupTreeShallow(m[part].mv, Tail(nested))

RECURSIVE lookupTree(_, _)
\* the loop of GetE over the parts of the key and the final read
lookupTree(m, nested) ==
    LET part == nested[1] IN
    IF ~Has(m, part) THEN Failed("key not found")
    ELSE IF Len(nested) = 1 THEN Found(m[part])
    ELSE IF m[part].kind # "map" THEN Failed("invalid type for key")
    ELSE lookupTree(m[part].mv, Tail(nested))

\* the flag registered for the key is changed
flagChanged(key) == Has(flags, key) /\ flags[key]

\* a flag set is bound and reports the key as changed
pflagSetChanged(key) == pflagSet # <<>> /\ key \in pflagSet[1]

\* os.LookupEnv of the name derived from the key
lookupEnv(nested) == EnvKey(nested.parts, envPrefix) \in env

\* GetE: the sources in their order of precedence; a source that does not
\* hold the key hands over to the next one
GetE(key) ==
    IF key = Dot THEN Found(MapV(config))
    ELSE LET nested == KeySplit(key) IN
         IF nested.err # "" THEN Failed(nested.err)
         ELSE IF flagChanged(key) THEN Found(FlagValue)
         ELSE IF pflagSetChanged(key) THEN Found(PflagSetValue)
         ELSE IF lookupEnv(nested) THEN Found(EnvValue)
         ELSE LET fromConfig == lookupTree(config, Strings(nested.parts)) IN
              IF fromConfig.err = "" THEN fromConfig
              ELSE LET fromDefaults == lookupTree(defaults, Strings(nested.parts)) IN
                   IF fromDefaults.err = "" THEN fromDefaults
                   ELSE fromConfig

\* what the callers of the store pass in
SetKeys   == {KeyA, KeyAB, KeyOpen}
FlagKeys  == {KeyA, KeyAB}
GetKeys   == {KeyA, KeyAB, KeyOpen, Dot}
Prefixes  == {<<>>, <<"a", "p", "p", "_">>}
EnvNames  == {<<"A">>, <<"A", "_", "_", "B">>,
              <<"A", "P", "P", "_", "A">>,
              <<"A", "P", "P", "_", "A", "_", "_", "B">>}

\* the arguments of Set: a value at a key, a whole tree or a scalar at "."
RootTree == "b" :> SetValue
SetArgs  == (SetKeys \X {SetValue}) \cup ({Dot} \X {MapV(RootTree), SetValue})

StoreInit ==
    /\ StoreIdle
    /\ LoadIdle
    /\ StepIdle
    /\ dst = EmptyTree /\ src = EmptyTree /\ merged = EmptyTree
    /\ mphase = "off"
    /\ PureIdle

OutsideStore ==
    /\ UNCHANGED <<fs, paths, fullPath, readErr, readOf>>
    /\ UNCHANGED <<mergeVars, pureVars>>
    /\ UNCHANGED stepVars

StoreFrame ==
    /\ OutsideStore
    /\ UNCHANGED typed

\* Config.Set
Set(key, v) ==
    /\ config' = setTree(config, key, v)
    /\ wrote' = <<IF setOk(key, v) THEN "Set" ELSE "Set failed", key, v, config>>
    /\ got' = <<>>
    /\ UNCHANGED <<defaults, flags, pflagSet, env, envPrefix>>
    /\ StoreFrame

\* Config.SetDefault
SetDefault(key, v) ==
    /\ defaults' = setTree(defaults, key, v)
    /\ wrote' = <<IF setOk(key, v) THEN "SetDefault" ELSE "SetDefault failed",
                   key, v, defaults>>
    /\ got' = <<>>
    /\ UNCHANGED <<config, flags, pflagSet, env, envPrefix>>
    /\ StoreFrame

\* Config.AddPflag: the flag registered for the key, changed or not
AddPflag(key, changed) ==
    /\ flags' = [k \in DOMAIN flags \cup {key} |-> IF k = key THEN changed ELSE flags[k]]
    /\ got' = <<>>
    /\ UNCHANGED <<config, defaults, pflagSet, env, envPrefix>>
    /\ wrote' = <<>>
    /\ StoreFrame

\* Config.SetPflagSet: a flag set in which the flags of `changed` are changed
SetPflagSet(changed) ==
    /\ pflagSet' = <<changed>>
    /\ got' = <<>>
    /\ UNCHANGED <<config, defaults, flags, env, envPrefix>>
    /\ wrote' = <<>>
    /\ StoreFrame

\* Config.SetEnvPrefix
SetEnvPrefix(p) ==
    /\ envPrefix' = StripUnderscores(p)
    /\ got' = <<>>
    /\ UNCHANGED <<config, defaults, flags, pflagSet, env>>
    /\ wrote' = <<>>
    /\ StoreFrame

\* os.Setenv by the process
Setenv(name) ==
    /\ name \notin env
    /\ env' = env \cup {name}
    /\ got' = <<>>
    /\ UNCHANGED <<config, defaults, flags, pflagSet, envPrefix>>
    /\ wrote' = <<>>
    /\ StoreFrame

\* a call of Config.GetE
CallGetE(key) ==
    /\ got' = <<key, GetE(key)>>
    /\ UNCHANGED <<config, defaults, flags, pflagSet, env, envPrefix>>
    /\ wrote' = <<>>
    /\ StoreFrame

SetSome         == \E a \in SetArgs : Set(a[1], a[2])
SetDefaultSome  == \E key \in SetKeys : SetDefault(key, DefaultValue)
AddPflagSome    == \E key \in FlagKeys, changed \in BOOLEAN : AddPflag(key, changed)
SetPflagSetSome == \E changed \in SUBSET FlagKeys : SetPflagSet(changed)
SetEnvPrefixSome == \E p \in Prefixes : SetEnvPrefix(p)
SetenvSome      == \E name \in EnvNames : Setenv(name)
GetESome        == \E key \in GetKeys : CallGetE(key)

Next ==
    \/ SetSome
    \/ SetDefaultSome
    \/ AddPflagSome
    \/ SetPflagSetSome
    \/ SetEnvPrefixSome
    \/ SetenvSome
    \/ GetESome

Spec == StoreInit /\ [][Next]_vars

---------------------------------------------------------------------------
(* config.go, generated.go: the typed getters.  A family is a target type *)
(* with its converter; a getter returns [err, panic, val].                *)

Families == {"Int", "StringMap"}

NilMap == [kind |-> "nilmap", sv |-> 0, lv |-> <<>>, mv |-> EmptyTree]

\* var zero T
Zero(fam) == IF fam = "Int" THEN Scalar(0) ELSE NilMap

\* cast.ToIntE, cast.ToStringMapE on the values of a tree
Conv(fam, v) ==
    IF fam = "Int"
    THEN IF v.kind = "scalar" THEN Found(v)
         ELSE IF v.kind = "null" THEN Found(Scalar(0))
         ELSE Failed("unable to cast to int")
    ELSE IF v.kind = "map" THEN Found(v)
         ELSE Failed("unable to cast to map[string]any")

Returned(v) == [err |-> "", panic |-> FALSE, val |-> v]
ReturnedErr(e, v) == [err |-> e, panic |-> FALSE, val |-> v]
Panicked(e) == [err |-> e, panic |-> TRUE, val |-> Null]

getValueE(fam, key) ==
    LET zero == Zero(fam)
        r == GetE(key)
    IN IF r.err # "" THEN ReturnedErr(r.err, zero)
       ELSE LET t == Conv(fam, r.val)
            IN IF t.err # "" THEN ReturnedErr(t.err, zero)
               ELSE Returned(t.val)

\* the mutated getValue: a value that does not convert is returned as it is
getValueRaw(fam, key) ==
    LET zero == Zero(fam)
        r == GetE(key)
    IN IF r.err # "" THEN Returned(zero)
       ELSE LET t == Conv(fam, r.val)
            IN IF t.err # "" THEN Returned(r.val)
               ELSE Returned(t.val)

getValue(fam, key) ==
    LET zero == Zero(fam)
        r == GetE(key)
    IN IF r.err # "" THEN Returned(zero)
       ELSE LET t == Conv(fam, r.val)
            IN IF t.err # "" THEN Returned(zero)
               ELSE Returned(t.val)

getValueMust(fam, key) ==
    LET r == GetE(key)
    IN IF r.err # "" THEN Panicked(r.err)
       ELSE LET t == Conv(fam, r.val)
            IN IF t.err # "" THEN Panicked(t.err)
               ELSE Returned(t.val)

\* Must(v, err), Should(v, err) applied to what GetTE returns
Must(r) == IF r.err # "" THEN Panicked(r.err) ELSE Returned(r.val)
Should(r, fam) == IF r.err # "" THEN Returned(Zero(fam)) ELSE Returned(r.val)

\* the getter of the family in each convention ("E", "", "Must"), as
\* config.go writes it ("generic") and as generated.go writes it
Getter(conv, impl, fam, key) ==
    IF conv = "E" THEN getValueE(fam, key)
    ELSE IF conv = "Must"
    THEN IF impl = "generic" THEN getValueMust(fam, key) ELSE Must(getValueE(fam, key))
    ELSE IF impl = "generic" THEN getValue(fam, key) ELSE Should(getValueE(fam, key), fam)

TypedInit ==
    /\ config \in Trees
    /\ defaults \in {EmptyTree, "a" :> MapV("b" :> DefaultValue)}
    /\ env \in {{}, {<<"A">>}}
    /\ flags = EmptyTree /\ pflagSet = <<>> /\ envPrefix = <<>>
    /\ got = <<>> /\ wrote = <<>> /\ typed = <<>>
    /\ fs = [n \in FileNames |-> Doc(NoInclude, EmptyTree)]
    /\ paths = <<>> /\ fullPath = {} /\ readErr = FALSE /\ readOf = <<>>
    /\ StepIdle
    /\ dst = EmptyTree /\ src = EmptyTree /\ merged = EmptyTree
    /\ mphase = "off"
    /\ PureIdle

\* a call of GetTE, GetT or GetTMust
CallTyped(conv, impl, fam, key) ==
    /\ typed' = <<conv, impl, fam, key, Getter(conv, impl, fam, key)>>
    /\ UNCHANGED <<config, defaults, flags, pflagSet, env, envPrefix, got, wrote>>
    /\ OutsideStore

CallGetTE   == \E fam \in Families, key \in GetKeys :
                   CallTyped("E", "generic", fam, key)
CallGetT    == \E impl \in {"generic", "generated"}, fam \in Families, key \in GetKeys :
                   CallTyped("", impl, fam, key)
CallGetTMust == \E impl \in {"generic", "generated"}, fam \in Families, key \in GetKeys :
                   CallTyped("Must", impl, fam, key)

TypedNext == CallGetTE \/ CallGetT \/ CallGetTMust

SpecTyped == TypedInit /\ [][TypedNext]_vars

\* Set and SetDefault on a store that holds any of the bounded trees
WriteNext == SetSome \/ SetDefaultSome

SpecWrite == TypedInit /\ [][WriteNext]_vars

---------------------------------------------------------------------------
(* Bind and Validate: one int field with a check tag *)

MaxLimit == 3

RuleNames == {"default", "min", "max"}
Limits    == 0..MaxLimit
FieldInts == (0 - 1)..(MaxLimit + 1)

\* the rules written without a value: "required", a rule that takes no int field
\* ("email"), a name Validate does not know ("bogus"), and the part "=v" whose
\* name is empty
FlagNames == {"required", "email", "bogus", ""}

\* out[p] = true: cast.ToInt64E(true) is 1
Flag == 1

\* the parts of a check tag, by name: the rules with a parameter and the flags
Tags == {f @@ [n \in S |-> Flag] :
            f \in UNION {[R -> Limits] : R \in SUBSET RuleNames},
            S \in SUBSET FlagNames} \ {<<>>}

Passed(v)   == [err |-> "", field |-> v]
Rejected(name, v) == [err |-> name, field |-> v]
Panic(v)    == [err |-> "panic", field |-> v]

\* parseValidateTag returns an error for a part with an empty name
tagMalformed(t) == "" \in DOMAIN t

\* exclusive(rules, "required", "default")
exclusive(t) == "required" \in DOMAIN t /\ "default" \in DOMAIN t

\* the case "default" as src/validate.go has it: the default replaces a zero value
validateRuleZero(name, rule, value, chg) ==
    CASE name = "default"  -> IF value = 0 THEN Passed(rule) ELSE Passed(value)
      [] name = "min"      -> IF value < rule THEN Rejected("min", value) ELSE Passed(value)
      [] name = "max"      -> IF value > rule THEN Rejected("max", value) ELSE Passed(value)
      [] name = "required" -> IF ~chg THEN Rejected("required", value) ELSE Passed(value)
      [] name = "email"    -> Panic(value)
      [] OTHER             -> Panic(value)

\* one turn of the loop of Validate on an int field: the case of rule `name`
validateRule(name, rule, value, chg) ==
    CASE name = "default"  -> IF ~chg THEN Passed(rule) ELSE Passed(value)
      [] name = "min"      -> IF value < rule THEN Rejected("min", value) ELSE Passed(value)
      [] name = "max"      -> IF value > rule THEN Rejected("max", value) ELSE Passed(value)
      [] name = "required" -> IF ~chg THEN Rejected("required", value) ELSE Passed(value)
      [] name = "email"    -> Panic(value)
      [] OTHER             -> Panic(value)

BindInit ==
    /\ source \in {<<>>} \cup {<<v>> : v \in FieldInts}
    /\ tag \in Tags
    /\ field = 0
    /\ isChanged = FALSE
    /\ rules = {}
    /\ berr = ""
    /\ bphase = "input"
    /\ HeapIdle
    /\ KeyIdle
    /\ LaterIdle
    /\ dst = EmptyTree /\ src = EmptyTree /\ merged = EmptyTree
    /\ mphase = "off"
    /\ LoadIdle
    /\ StepIdle
    /\ StoreIdle

BindFrame ==
    /\ UNCHANGED <<dst, src, merged, mphase>>
    /\ UNCHANGED heapVars
    /\ UNCHANGED keyVars
    /\ UNCHANGED laterVars
    /\ UNCHANGED loadVars
    /\ UNCHANGED stepVars
    /\ UNCHANGED storeVars

\* bindInto up to the call of Validate: got, err := c.GetValueE(key); field.Set(got);
\* then rules := parseValidateTag(ruleTag)
\* Must(parseValidateTag(ruleTag)) and exclusive panic before the loop
BindFetch ==
    /\ bphase = "input"
    /\ isChanged' = (source # <<>>)
    /\ field' = IF source = <<>> THEN 0 ELSE source[1]
    /\ IF tagMalformed(tag) \/ exclusive(tag)
         THEN /\ rules' = {}
              /\ berr' = "panic"
              /\ bphase' = "returned"
         ELSE /\ rules' = DOMAIN tag
              /\ berr' = ""
              /\ bphase' = "validate"
    /\ UNCHANGED <<source, tag>>
    /\ BindFrame

\* for name, rule := range rules: the map yields the rules in any order
ValidateRule ==
    /\ bphase = "validate"
    /\ \E name \in rules :
         LET r == validateRule(name, tag[name], field, isChanged)
         IN /\ field' = r.field
            /\ rules' = rules \ {name}
            /\ berr' = r.err
            /\ bphase' = IF r.err = "" THEN "validate" ELSE "returned"
    /\ UNCHANGED <<source, tag, isChanged>>
    /\ BindFrame

\* the loop is over: Validate returns nil, and so does Bind
ValidateDone ==
    /\ bphase = "validate"
    /\ rules = {}
    /\ berr' = ""
    /\ bphase' = "returned"
    /\ UNCHANGED <<source, tag, field, isChanged, rules>>
    /\ BindFrame

BindNext == BindFetch \/ ValidateRule \/ ValidateDone

SpecBind == BindInit /\ [][BindNext]_vars

---------------------------------------------------------------------------
(* Bind of a struct: bindInto over the fields, a nested struct included *)

\* a struct field: its Go name, its config tag, and either the fields of its
\* struct type or <<the parts of its check tag>> (<<>> when it has none)
Leaf(name, cfgTag, check) ==
    [name |-> name, cfgTag |-> cfgTag, isStruct |-> FALSE, sub |-> <<>>, check |-> check]
StructField(name, cfgTag, sub) ==
    [name |-> name, cfgTag |-> cfgTag, isStruct |-> TRUE, sub |-> sub, check |-> <<>>]

RECURSIVE TrimLeft(_)
TrimLeft(s) == IF s # <<>> /\ Head(s) = "." THEN TrimLeft(Tail(s)) ELSE s

RECURSIVE TrimRight(_)
TrimRight(s) ==
    IF s # <<>> /\ s[Len(s)] = "." THEN TrimRight(SubSeq(s, 1, Len(s) - 1)) ELSE s

\* strings.Trim(key, ".")
Trim(s) == TrimRight(TrimLeft(s))

\* the mutated key: the prefix is not joined
fieldKeyNoPrefix(pfx, sf) ==
    Trim(IF sf.cfgTag = <<>> THEN sf.name ELSE sf.cfgTag)

\* bindInto: build key path (and newPrefix, which is built the same way)
fieldKey(pfx, sf) ==
    LET key == Trim(IF sf.cfgTag = <<>> THEN sf.name ELSE sf.cfgTag)
    IN IF pfx # <<>>
       THEN IF key # <<>> THEN pfx \o <<".">> \o key ELSE pfx
       ELSE key

RECURSIVE bindOrder(_, _)
\* the leaf fields in the order bindInto(rv, prefix) reaches them, with their keys
bindOrder(fields, pfx) ==
    IF fields = <<>> THEN <<>>
    ELSE LET sf   == Head(fields)
             here == IF sf.isStruct
                     THEN bindOrder(sf.sub, fieldKey(pfx, sf))
                     ELSE <<[key |-> fieldKey(pfx, sf), check |-> sf.check]>>
         IN here \o bindOrder(Tail(fields), pfx)

\* the mutated fetch: a value that is not cast to an int counts as no value
fetchLenient(key) ==
    LET g == GetE(key) IN
    IF g.err # "" THEN [out |-> "", chg |-> FALSE, val |-> 0]
    ELSE IF g.val.kind = "null" THEN [out |-> "panic", chg |-> TRUE, val |-> 0]
    ELSE IF g.val.kind = "scalar" THEN [out |-> "", chg |-> TRUE, val |-> g.val.sv]
    ELSE [out |-> "", chg |-> FALSE, val |-> 0]

\* got, err := c.GetValueE(key), then the conversion to the int field:
\* reflect.ValueOf(nil).Type() panics, a sequence or a map is not cast to an int
fetch(key) ==
    LET g == GetE(key) IN
    IF g.err # "" THEN [out |-> "", chg |-> FALSE, val |-> 0]
    ELSE IF g.val.kind = "null" THEN [out |-> "panic", chg |-> TRUE, val |-> 0]
    ELSE IF g.val.kind = "scalar" THEN [out |-> "", chg |-> TRUE, val |-> g.val.sv]
    ELSE [out |-> "cannot assign", chg |-> TRUE, val |-> 0]

RECURSIVE validateIn(_, _, _, _)
\* the loop of Validate when the map yields the rules in the order ord
validateIn(ord, t, value, chg) ==
    IF ord = <<>> THEN Passed(value)
    ELSE LET r == validateRule(Head(ord), t[Head(ord)], value, chg)
         IN IF r.err # "" THEN r ELSE validateIn(Tail(ord), t, r.field, chg)

Orders(S) ==
    {o \in [1..Cardinality(S) -> S] : \A i, j \in DOMAIN o : i # j => o[i] # o[j]}

\* the outcomes of Validate(sf, field, changed), one for each order of the rules
Validate(check, value, chg) ==
    IF check = <<>> THEN {Passed(value)}
    ELSE IF tagMalformed(check[1]) \/ exclusive(check[1]) THEN {Panic(value)}
    ELSE {validateIn(o, check[1], value, chg) : o \in Orders(DOMAIN check[1])}

\* the check tags of the leaf fields
LeafChecks == {<<>>, <<"default" :> 1>>, <<"required" :> Flag>>, <<"min" :> 1>>}

KeyB == <<"b">>

\* the config tags: as in ServerConfig, with stray separators, or none
TagStyles == {"tagged", "stray", "untagged"}

cfgTagOf(style, n) ==
    CASE style = "tagged"   -> <<n>>
      [] style = "stray"    -> IF n = "a" THEN <<".", n>> ELSE <<n, ".">>
      [] style = "untagged" -> <<>>

\* a struct like ServerConfig: a leaf, then a nested struct of two leaves
StructType(style, c1, ca, cb) ==
    <<Leaf(<<"A">>, cfgTagOf(style, "a"), c1),
      StructField(<<"B">>, cfgTagOf(style, "b"),
                  <<Leaf(<<"A">>, cfgTagOf(style, "a"), ca),
                    Leaf(<<"B">>, cfgTagOf(style, "b"), cb)>>)>>

StructTypes ==
    {StructType(style, c1, ca, cb) :
        style \in TagStyles, c1 \in LeafChecks, ca \in LeafChecks, cb \in LeafChecks}

BindPrefixes == {<<>>, KeyA}

\* the trees Bind reads from: the keys a, b.a and b.b, at the root or below "a"
InnerVals == {Scalar(1), SeqV(<<1>>)}
RootTrees ==
    {ta @@ tb :
        ta \in TreesOver({"a"}, InnerVals \cup {Null}),
        tb \in TreesOver({"b"}, {Scalar(1)} \cup {MapV(t) : t \in TreesOver(Names, InnerVals)})}
BindTrees == RootTrees \cup {("a" :> MapV(t)) : t \in RootTrees}

\* c := New(), the values set, and Bind called with a destination whose
\* fields are zero or already hold a value
StructInit ==
    /\ rt \in StructTypes
    /\ bprefix \in BindPrefixes
    /\ dest \in {[i \in 1..3 |-> d] : d \in {0, MaxScalar}}
    /\ orig = dest
    /\ pos = 1
    /\ reads = <<>>
    /\ sret = <<>>
    /\ sphase = "bind"
    /\ config \in BindTrees
    /\ fs = [n \in FileNames |-> Doc(NoInclude, EmptyTree)]
    /\ paths = <<>> /\ fullPath = {} /\ readErr = FALSE /\ readOf = <<>>
    /\ StoreIdle
    /\ StepIdle
    /\ dst = EmptyTree /\ src = EmptyTree /\ merged = EmptyTree
    /\ mphase = "off"
    /\ HeapIdle
    /\ KeyIdle
    /\ BindIdle
    /\ RaceIdle

StructFrame ==
    /\ UNCHANGED <<rt, bprefix, orig>>
    /\ UNCHANGED raceVars
    /\ UNCHANGED <<mergeVars, heapVars, keyVars, bindVars>>
    /\ UNCHANGED loadVars
    /\ UNCHANGED stepVars
    /\ UNCHANGED storeVars

\* one turn of the loop of bindInto at a leaf field: fetch, convert, set, validate
BindLeaf ==
    /\ sphase = "bind"
    /\ pos <= Len(bindOrder(rt, bprefix))
    /\ LET lf == bindOrder(rt, bprefix)[pos]
           f  == fetch(lf.key)
       IN /\ reads' = Append(reads, lf.key)
          /\ IF f.out # ""
             THEN /\ sret' = <<[kind |-> f.out, key |-> lf.key]>>
                  /\ sphase' = "returned"
                  /\ UNCHANGED <<dest, pos>>
             ELSE \E r \in Validate(lf.check, f.val, f.chg) :
                     /\ dest' = [dest EXCEPT ![pos] = r.field]
                     /\ IF r.err = ""
                        THEN /\ pos' = pos + 1
                             /\ UNCHANGED <<sret, sphase>>
                        ELSE /\ sret' = <<[kind |-> r.err, key |-> lf.key]>>
                             /\ sphase' = "returned"
                             /\ UNCHANGED pos
    /\ StructFrame

\* the loop is over: return nil
BindReturn ==
    /\ sphase = "bind"
    /\ pos > Len(bindOrder(rt, bprefix))
    /\ sret' = <<[kind |-> "nil", key |-> <<>>]>>
    /\ sphase' = "returned"
    /\ UNCHANGED <<dest, pos, reads>>
    /\ StructFrame

StructNext == BindLeaf \/ BindReturn

SpecStruct == StructInit /\ [][StructNext]_vars

---------------------------------------------------------------------------
(* Set and GetE on two threads, one map read or write at a time.  The tree  *)
(* of c.config is held as map objects: Set writes into them in place and   *)
(* GetE follows the addresses it has read.                                  *)

RaceKeys  == {KeyA, KeyAB, KeyOpen}
RaceTrees == TreesOver(Names, {Scalar(1)} \cup {MapV(t) : t \in TreesOver(Names, {Scalar(1)})})
RaceValue == HScalar(MaxScalar)

\* the tree c.config holds now
TreeNow == TreeOf(heap, croot)

RaceInit ==
    /\ \E t \in RaceTrees :
          LET r == allocValue(<<>>, MapV(t))
          IN /\ heap = r.h
             /\ croot = r.v.ref
             /\ trail = <<t>>
    /\ \E key \in RaceKeys :
          setter = [key |-> key, v |-> RaceValue, pc |-> "start", m |-> 0, i |-> 0, err |-> ""]
    /\ \E key \in RaceKeys :
          getter = [key |-> key, pc |-> "start", m |-> 0, i |-> 0, res |-> Failed("")]
    /\ hroots = <<>> /\ hin = <<>> /\ hphase = "off"
    /\ KeyIdle
    /\ BindIdle
    /\ StructIdle
    /\ dst = EmptyTree /\ src = EmptyTree /\ merged = EmptyTree
    /\ mphase = "off"
    /\ LoadIdle
    /\ StepIdle
    /\ StoreIdle

RaceFrame ==
    /\ UNCHANGED <<croot, hroots, hin, hphase>>
    /\ UNCHANGED <<mergeVars, keyVars, bindVars, structVars>>
    /\ UNCHANGED loadVars
    /\ UNCHANGED stepVars
    /\ UNCHANGED storeVars

\* the parts of the key a thread works on
PartsOf(key) == Strings(KeySplit(key).parts)

\* the mutated install: the new map is made but not stored in m
setInstallDetached(h, m, part) ==
    makeMap(h, EmptyTree)

\* newMap := make(map[string]any); m[part] = newMap
setInstall(h, m, part) ==
    LET n == makeMap(h, EmptyTree)
    IN [h |-> Store(n.h, m, part, HRef(n.a)), a |-> n.a]

\* Set: nested, err := KeySplit(key); m := c.config
SetStart ==
    /\ setter.pc = "start"
    /\ setter' = IF KeySplit(setter.key).err # ""
                 THEN [setter EXCEPT !.pc = "done", !.err = KeySplit(setter.key).err]
                 ELSE [setter EXCEPT !.pc = "loop", !.m = croot, !.i = 1]
    /\ UNCHANGED <<heap, getter, trail>>
    /\ RaceFrame

\* Set: next, ok := m[part], and the step into a map that is there
SetRead ==
    /\ setter.pc = "loop"
    /\ setter.i < Len(PartsOf(setter.key))
    /\ LET part == PartsOf(setter.key)[setter.i]
           m    == heap[setter.m]
       IN setter' = IF Has(m, part) /\ m[part].kind = "ref"
                    THEN [setter EXCEPT !.m = m[part].ref, !.i = setter.i + 1]
                    ELSE [setter EXCEPT !.pc = "install"]
    /\ UNCHANGED <<heap, getter, trail>>
    /\ RaceFrame

\* Set: m[part] = newMap; m = newMap
SetInstall ==
    /\ setter.pc = "install"
    /\ LET n == setInstall(heap, setter.m, PartsOf(setter.key)[setter.i])
       IN /\ heap' = n.h
          /\ setter' = [setter EXCEPT !.pc = "loop", !.m = n.a, !.i = setter.i + 1]
          /\ trail' = Append(trail, TreeOf(n.h, croot))
    /\ UNCHANGED getter
    /\ RaceFrame

\* Set: m[nested[len(nested)-1]] = v; return nil
SetLeaf ==
    /\ setter.pc = "loop"
    /\ setter.i = Len(PartsOf(setter.key))
    /\ heap' = Store(heap, setter.m, PartsOf(setter.key)[setter.i], setter.v)
    /\ setter' = [setter EXCEPT !.pc = "done"]
    /\ trail' = Append(trail, TreeOf(heap', croot))
    /\ UNCHANGED getter
    /\ RaceFrame

\* GetE: nested, err := KeySplit(key); m := c.config
GetStart ==
    /\ getter.pc = "start"
    /\ getter' = IF KeySplit(getter.key).err # ""
                 THEN [getter EXCEPT !.pc = "done", !.res = Failed(KeySplit(getter.key).err)]
                 ELSE [getter EXCEPT !.pc = "loop", !.m = croot, !.i = 1]
    /\ UNCHANGED <<heap, setter, trail>>
    /\ RaceFrame

\* GetE: next, ok := m[part] in the loop
GetRead ==
    /\ getter.pc = "loop"
    /\ getter.i < Len(PartsOf(getter.key))
    /\ LET part == PartsOf(getter.key)[getter.i]
           m    == heap[getter.m]
       IN getter' = IF ~Has(m, part)
                    THEN [getter EXCEPT !.pc = "done", !.res = Failed("key not found")]
                    ELSE IF m[part].kind # "ref"
                    THEN [getter EXCEPT !.pc = "done", !.res = Failed("invalid type for key")]
                    ELSE [getter EXCEPT !.m = m[part].ref, !.i = getter.i + 1]
    /\ UNCHANGED <<heap, setter, trail>>
    /\ RaceFrame

\* GetE: val, ok := m[nested[len(nested)-1]]
GetLeaf ==
    /\ getter.pc = "loop"
    /\ getter.i = Len(PartsOf(getter.key))
    /\ LET part == PartsOf(getter.key)[getter.i]
           m    == heap[getter.m]
       IN getter' = IF ~Has(m, part)
                    THEN [getter EXCEPT !.pc = "done", !.res = Failed("key not found")]
                    ELSE [getter EXCEPT !.pc = "done", !.res = Found(ValueOf(heap, m[part]))]
    /\ UNCHANGED <<heap, setter, trail>>
    /\ RaceFrame

RaceNext ==
    \/ SetStart \/ SetRead \/ SetInstall \/ SetLeaf
    \/ GetStart \/ GetRead \/ GetLeaf

SpecRace == RaceInit /\ [][RaceNext]_vars

---------------------------------------------------------------------------
(* Claims about the lookup of GetE *)

\* the name of the environment variable of each key, without and with the
\* prefix APP
EnvNameOf(key) ==
    IF envPrefix = <<>>
    THEN IF key = KeyA THEN <<"A">> ELSE <<"A", "_", "_", "B">>
    ELSE IF key = KeyA THEN <<"A", "P", "P", "_", "A">>
                       ELSE <<"A", "P", "P", "_", "A", "_", "_", "B">>

\* the parts of each key as keys of the tree
PathOf(key) == IF key = KeyA THEN <<"a">> ELSE <<"a", "b">>

\* the sources, highest precedence first: does the source hold the key, and
\* the value it holds
Sources(key) ==
    << [holds |-> key \in DOMAIN flags /\ flags[key], value |-> FlagValue],
       [holds |-> pflagSet # <<>> /\ key \in pflagSet[1], value |-> PflagSetValue],
       [holds |-> EnvNameOf(key) \in env, value |-> EnvValue],
       [holds |-> Defined(config, PathOf(key)),
        value |-> IF Defined(config, PathOf(key)) THEN At(config, PathOf(key)) ELSE Null],
       [holds |-> Defined(defaults, PathOf(key)),
        value |-> IF Defined(defaults, PathOf(key)) THEN At(defaults, PathOf(key)) ELSE Null] >>

Holding(key) == {i \in 1..5 : Sources(key)[i].holds}

First(S) == CHOOSE i \in S : \A j \in S : i <= j

---------------------------------------------------------------------------
(* Claims about the maps DeepMerge shares *)

\* the returned map holds the tree that DeepMerge on trees gives
HeapMergeAgrees ==
    hphase = "merged" => TreeOf(heap, hroots.res) = DeepMerge(hin[1], hin[2])

RECURSIVE HasMapInSeq(_)
\* some sequence of the tree, at any depth, has a map among its elements
HasMapInSeq(t) ==
    \E k \in DOMAIN t :
        \/ t[k].kind = "seq" /\ \E i \in DOMAIN t[k].lv : t[k].lv[i].kind = "map"
        \/ t[k].kind = "map" /\ HasMapInSeq(t[k].mv)

SharedMaps == ReachMaps(heap, hroots.res) \cap ReachMaps(heap, hroots.src)

\* where no sequence of src holds a map, the result shares no map with src
\* and a write into the result leaves src as it was
NoSharedMapOutsideSeq ==
    (hphase \in {"merged", "written"} /\ ~HasMapInSeq(hin[2])) =>
        /\ SharedMaps = {}
        /\ TreeOf(heap, hroots.src) = hin[2]

\* C11: after DeepMerge(dst, src), for trees whose values are scalars,
\* sequences and nested trees, no map reachable from the result is the same
\* object as a map reachable from src, and a later write in place into a
\* map of the result leaves src unchanged.
C11_NoSharedMap ==
    hphase \in {"merged", "written"} =>
        /\ SharedMaps = {}
        /\ TreeOf(heap, hroots.src) = hin[2]

---------------------------------------------------------------------------
(* Claims about KeySplit *)

Quotes == {"'", "\""}

RECURSIVE Escaped(_, _)
\* character i of the key follows an escaping backslash
Escaped(key, i) == i > 1 /\ key[i - 1] = "\\" /\ ~Escaped(key, i - 1)

\* character i is a backslash that escapes what follows
IsEscape(key, i) == key[i] = "\\" /\ ~Escaped(key, i)

RECURSIVE QuoteAfter(_, _)
\* the quote character that is open after the first i characters, "" if none
QuoteAfter(key, i) ==
    IF i = 0 THEN ""
    ELSE LET q == QuoteAfter(key, i - 1)
             r == key[i]
         IN IF Escaped(key, i) \/ r \notin Quotes THEN q
            ELSE IF q = "" THEN r
            ELSE IF q = r THEN "" ELSE q

\* character i is a dot outside quotes / a quote character that opens or
\* closes a segment / a character of a part
IsSep(key, i)   == key[i] = "." /\ ~Escaped(key, i) /\ QuoteAfter(key, i - 1) = ""
IsDelim(key, i) == key[i] \in Quotes /\ ~Escaped(key, i) /\ QuoteAfter(key, i - 1) \in {"", key[i]}
IsLit(key, i)   == ~IsSep(key, i) /\ ~IsDelim(key, i) /\ ~IsEscape(key, i)

\* no quote is left open and no backslash ends the key
WellFormed(key) ==
    /\ QuoteAfter(key, Len(key)) = ""
    /\ ~(Len(key) > 0 /\ IsEscape(key, Len(key)))

\* the j-th smallest element of a set of positions
Nth(S, j) == CHOOSE i \in S : Cardinality({x \in S : x < i}) = j - 1

\* the parts of a key by the rules of the key syntax: the k-th part is made
\* of the part characters between the (k-1)-th and the k-th separator
RefParts(key) ==
    LET seps == {i \in DOMAIN key : IsSep(key, i)}
        lo(k) == IF k = 1 THEN 0 ELSE Nth(seps, k - 1)
        hi(k) == IF k = Cardinality(seps) + 1 THEN Len(key) + 1 ELSE Nth(seps, k)
        lits(k) == {i \in DOMAIN key : lo(k) < i /\ i < hi(k) /\ IsLit(key, i)}
    IN [k \in 1..(Cardinality(seps) + 1) |->
           [j \in 1..Cardinality(lits(k)) |-> key[Nth(lits(k), j)]]]

NoBackslash(key) == \A i \in DOMAIN key : key[i] # "\\"

Parsed == kphase \in {"parsed", "named"}

\* C12: KeySplit splits a key (without escapes, and other than the root
\* key ".") at every dot outside quotes and nowhere else; a part in '...' or
\* "..." keeps its dots, the enclosing quotes are dropped, a quote of the
\* other kind inside a quoted segment is kept; a.b.c gives [a, b, c],
\* a.'b.c'."c" gives [a, b.c, c] and 'a.b'.c gives [a.b, c].
C12_SplitsAtDotsOutsideQuotes ==
    Parsed =>
        /\ (NoBackslash(kin) /\ kin # Dot /\ WellFormed(kin)) =>
               kout[1] = KeyOk(RefParts(kin))
        /\ kin = KeyABC => kout[1] = KeyOk(<< <<"a">>, <<"b">>, <<"c">> >>)
        /\ kin = KeyQuotedMid => kout[1] = KeyOk(<< <<"a">>, <<"b", ".", "c">>, <<"c">> >>)
        /\ kin = KeyQuotedFst => kout[1] = KeyOk(<< <<"a", ".", "b">>, <<"c">> >>)

\* a.'b.c'."c" has been parsed
C12_Witness ==
    /\ Parsed
    /\ kin = KeyQuotedMid
    /\ Len(kout[1].parts) = 3
    /\ kout[1].parts[2] = <<"b", ".", "c">>

\* C13: a backslash escapes the next rune: the rune after it is appended
\* to the current part as it is and is neither a separator nor a quote, so
\* a\.b is the single part a.b and an escaped quote opens and closes
\* nothing.
C13_EscapeKeepsNextRune ==
    (Parsed /\ ~NoBackslash(kin) /\ WellFormed(kin)) =>
        /\ kout[1] = KeyOk(RefParts(kin))
        /\ kin = KeyEscDot => kout[1] = KeyOk(<< <<"a", ".", "b">> >>)

\* C14: KeySplit fails exactly on the keys with an unclosed quote or a
\* dangling trailing backslash, and returns no parts with the error.
C14_ErrorWithoutParts ==
    (Parsed /\ kin # Dot) =>
        /\ kout[1].err # "" <=> ~WellFormed(kin)
        /\ kout[1].err # "" => kout[1].parts = <<>>

\* a part with a backslash before each of its dots
EscapeDots(part) ==
    Join([i \in DOMAIN part |-> IF part[i] = "." THEN <<"\\", ".">> ELSE <<part[i]>>], <<>>)

\* the parts joined with dots, the dots inside the parts escaped
Rejoin(parts) == Join([i \in DOMAIN parts |-> EscapeDots(parts[i])], <<".">>)

\* C15: on every key without unmatched quotes and without a trailing
\* escape KeySplit succeeds, and the parts joined again with dots (the dots
\* inside the parts escaped) parse to the same parts.
C15_RoundTrip ==
    (Parsed /\ kin # Dot /\ WellFormed(kin)) =>
        /\ kout[1].err = ""
        /\ KeySplit(Rejoin(kout[1].parts)) = KeyOk(kout[1].parts)

---------------------------------------------------------------------------
(* Claims about Key.EnvKey *)

\* the name of a part: what is not a letter or a digit becomes _, the
\* letters are upper-cased, a leading digit gets a _ before it
RefEnvPart(part) ==
    LET up == [i \in DOMAIN part |->
                  IF IsLetter(part[i]) \/ IsDigit(part[i]) THEN ToUpperRune(part[i]) ELSE "_"]
    IN IF Len(up) > 0 /\ IsDigit(up[1]) THEN <<"_">> \o up ELSE up

RefEnvName(parts, prefix) ==
    LET joined == Join([i \in DOMAIN parts |-> RefEnvPart(parts[i])], <<"_", "_">>)
        px     == ToUpper(SelectSeq(prefix, LAMBDA r : r # "_"))
    IN IF px = <<>> THEN joined ELSE px \o <<"_">> \o joined

\* C16: Key.EnvKey(prefix) is the reference name for every key and
\* prefix, it holds no lower-case letter, and database.host with the prefix
\* APP_ gives APP_DATABASE__HOST.
C16_EnvKeyIsReferenceName ==
    kphase = "named" =>
        /\ kenv[1] = RefEnvName(kout[1].parts, kprefix)
        /\ \A i \in DOMAIN kenv[1] : kenv[1][i] \notin LowerLetters
        /\ (kin = KeyDbHost /\ kprefix = <<"A", "P", "P", "_">>) =>
               kenv[1] = <<"A", "P", "P", "_", "D", "A", "T", "A", "B", "A", "S", "E",
                           "_", "_", "H", "O", "S", "T">>

---------------------------------------------------------------------------
(* Claims about Set and SetDefault *)

RECURSIVE PathTree(_, _)
\* the tree that holds v at the path p and nothing else
PathTree(p, v) ==
    IF Len(p) = 1 THEN p[1] :> v ELSE p[1] :> MapV(PathTree(Tail(p), v))

\* no changed flag, no reporting flag set and no environment variable for
\* the key
NoOverride(key) == Holding(key) \cap {1, 2, 3} = {}

\* Set or SetDefault wrote v at the path p into the tree that was `before`
\* and is now `after`: wherever the path met no map, a new map holds the
\* rest of the path and nothing else
FreshMaps(before, after, p, v) ==
    \A n \in 1..(Len(p) - 1) :
        LET q == SubSeq(p, 1, n) IN
        ~(Defined(before, q) /\ At(before, q).kind = "map") =>
            At(after, q) = MapV(PathTree(SubSeq(p, n + 1, Len(p)), v))

\* Set or SetDefault has just succeeded on a key other than "."
WroteAtKey == wrote # <<>> /\ wrote[1] \in {"Set", "SetDefault"} /\ wrote[2] \in FlagKeys

\* the tree the write went to
Written == IF wrote[1] = "Set" THEN config ELSE defaults

---------------------------------------------------------------------------
(* Claims about the root key *)

\* C18: the key "." is the root of the tree: GetE(".") returns the whole
\* current tree; after Set(".", T) with T a string-keyed map GetE(".")
\* returns a tree equal to T, with no key added to it; Set(".", v) with v
\* not a map fails and leaves the tree as it was.
C18_RootKey ==
    /\ (got # <<>> /\ got[1] = Dot) => got[2] = Found(MapV(config))
    /\ (wrote # <<>> /\ wrote[2] = Dot /\ wrote[3].kind = "map") =>
           /\ wrote[1] = "Set"
           /\ GetE(Dot) = Found(wrote[3])
    /\ (wrote # <<>> /\ wrote[2] = Dot /\ wrote[3].kind # "map") =>
           /\ wrote[1] = "Set failed"
           /\ config = wrote[4]

---------------------------------------------------------------------------
(* Claims about the typed getters *)

\* the store as TypedInit chose it: no call has changed it
StoreAsChosen ==
    /\ flags = EmptyTree /\ pflagSet = <<>> /\ envPrefix = <<>>
    /\ got = <<>> /\ wrote = <<>>

\* C19: for each family, key and store, the three conventions agree: where
\* GetTE returns (v, nil), GetT and GetTMust return v; where GetTE returns
\* an error (missing key, non-map on the way, failed conversion), GetT
\* returns the zero value and GetTMust panics; none of them changes the
\* store.
C19_ConventionsAgree ==
    typed # <<>> =>
        LET conv == typed[1]
            fam  == typed[3]
            res  == typed[5]
            e    == getValueE(fam, typed[4])
        IN /\ conv = "E" => res = e /\ ~res.panic /\ (res.err # "" => res.val = Zero(fam))
           /\ (conv = "" /\ e.err = "") => res = Returned(e.val)
           /\ (conv = "" /\ e.err # "") => res = Returned(Zero(fam))
           /\ (conv = "Must" /\ e.err = "") => res = Returned(e.val)
           /\ (conv = "Must" /\ e.err # "") => res.panic
           /\ StoreAsChosen

\* GetIntMust("a") has panicked on a sequence, which does not convert
C19_Witness ==
    /\ typed # <<>>
    /\ typed[1] = "Must" /\ typed[2] = "generated" /\ typed[3] = "Int" /\ typed[4] = KeyA
    /\ Defined(config, <<"a">>) /\ At(config, <<"a">>).kind = "seq"
    /\ env = {}
    /\ typed[5].panic

---------------------------------------------------------------------------
(* Claims about Bind with default, min and max *)

\* the tag combines default=V with min=N and max=M, N <= V <= M
DefaultInBounds ==
    /\ DOMAIN tag = RuleNames
    /\ tag["min"] <= tag["default"]
    /\ tag["default"] <= tag["max"]

\* a source value below the minimum is rejected by min in whichever order the
\* rules are visited
BelowMinFails ==
    (bphase = "returned" /\ DefaultInBounds /\ source # <<>> /\ source[1] < tag["min"]) =>
        berr = "min"

\* some order of the rules binds the default
DefaultBound ==
    /\ bphase = "returned"
    /\ DefaultInBounds
    /\ source = <<>>
    /\ tag["min"] > 0
    /\ berr = ""
    /\ field = tag["default"]

\* C20: for a field tagged default=V,min=N,max=M with N <= V <= M, a Bind
\* with no source value returns nil and leaves the field equal to V, and a
\* Bind with a source value below N fails on the min rule, in every execution
C20_DefaultWithinBounds ==
    (bphase = "returned" /\ DefaultInBounds) =>
        /\ source = <<>> => (berr = "" /\ field = tag["default"])
        /\ (source # <<>> /\ source[1] < tag["min"]) => berr = "min"

---------------------------------------------------------------------------
(* Claims about the default rule *)

\* the loop of Validate has visited the case "default"
DefaultVisited ==
    /\ bphase \in {"validate", "returned"}
    /\ ~(tagMalformed(tag) \/ exclusive(tag))
    /\ "default" \in DOMAIN tag
    /\ "default" \notin rules

\* the value bindInto stored in the field before it called Validate
Fetched == IF source = <<>> THEN 0 ELSE source[1]

---------------------------------------------------------------------------
(* Claims about usage errors in a rule tag *)

\* the tag holds a usage error: a part with an empty name, an unknown rule,
\* required together with default, or a rule the int field does not support
UsageError ==
    \/ tagMalformed(tag)
    \/ exclusive(tag)
    \/ "bogus" \in DOMAIN tag
    \/ "email" \in DOMAIN tag

\* a usage error found before the loop of Validate always panics
UsageErrorBeforeLoop ==
    (bphase = "returned" /\ (tagMalformed(tag) \/ exclusive(tag))) => berr = "panic"

\* C24: a Bind of a field whose tag holds a usage error panics in every
\* execution and for every value of the field; it never returns an error or nil
C24_UsageErrorPanics ==
    (bphase = "returned" /\ UsageError) => berr = "panic"

---------------------------------------------------------------------------
(* Claims about Bind of a struct *)

\* the outcome of Bind
Returned3(kind) == sphase = "returned" /\ sret[1].kind = kind

\* the name a field declares: its config tag, or its Go name when it has none
DeclaredName(sf) == IF sf.cfgTag # <<>> THEN sf.cfgTag ELSE sf.name

\* the fields that enclose each leaf, the leaf last, in declaration order
Chains == <<<<rt[1]>>, <<rt[2], rt[2].sub[1]>>, <<rt[2], rt[2].sub[2]>>>>

\* the reference key of leaf i: the prefix and the declared names without
\* their stray separators, the empty ones left out, joined with "."
RefKey(i) ==
    LET names == [j \in DOMAIN Chains[i] |->
                     SelectSeq(DeclaredName(Chains[i][j]), LAMBDA r : r # ".")]
    IN Join(SelectSeq(<<bprefix>> \o names, LAMBDA n : n # <<>>), <<".">>)

\* what the store holds at a key, as an int field takes it
StoredInt(key) ==
    LET g == GetE(key) IN IF g.err = "" /\ g.val.kind = "scalar" THEN g.val.sv ELSE 0

NestedKey == fieldKey(bprefix, rt[2])

KeysUnderNested ==
    LET g == GetE(NestedKey)
    IN IF g.err = "" /\ g.val.kind = "map" THEN DOMAIN g.val.mv ELSE {}

\* Bind returned the error of a required rule of leaf i
RequiredFailedAt(i) ==
    /\ Returned3("required")
    /\ pos = i
    /\ sret[1].key = bindOrder(rt, bprefix)[i].key

\* leaf i of the nested struct is required, no source holds its key, and every
\* field before it was bound
RequiredMissingAt(i) ==
    /\ sphase = "returned"
    /\ pos >= i
    /\ bindOrder(rt, bprefix)[i].check = <<"required" :> Flag>>
    /\ GetE(bindOrder(rt, bprefix)[i].key).err # ""

\* bindInto enforces the required rule of a nested field whatever the
\* configuration holds under the prefix
RequiredEnforcedAlways ==
    \A i \in {2, 3} : (RequiredMissingAt(i) /\ pos = i) => RequiredFailedAt(i)

\* C22: with no key under the prefix of the nested struct, Bind does not fail
\* on a required rule of a nested field and leaves the nested fields it reached
\* at their zero or default values; with some key under the prefix and the
\* required key missing, Bind returns the error
C22_RequiredOnlyUnderPrefix ==
    \A i \in {2, 3} :
        /\ (sphase = "returned" /\ KeysUnderNested = {}) =>
               /\ ~RequiredFailedAt(i)
               /\ (i < pos) => dest[i] \in {0, 1}
        /\ (RequiredMissingAt(i) /\ pos = i /\ KeysUnderNested # {}) => RequiredFailedAt(i)

\* leaf i passes on its own: the value stored at its key, if any, is an int,
\* and its rule accepts it
LeafOk(i) ==
    LET g     == GetE(RefKey(i))
        check == bindOrder(rt, bprefix)[i].check
    IN /\ g.err # "" \/ g.val.kind = "scalar"
       /\ check = <<"required" :> Flag>> => g.err = ""
       /\ check = <<"min" :> 1>> => StoredInt(RefKey(i)) >= 1

---------------------------------------------------------------------------
(* Claims about Set and GetE on two threads *)

\* what a GetE of the getter's key returns on the tree t when it runs alone
Look(t) ==
    IF KeySplit(getter.key).err # "" THEN Failed(KeySplit(getter.key).err)
    ELSE lookupTree(t, PartsOf(getter.key))

\* the tree before the Set, and the tree after it when it runs alone
TreeBefore == trail[1]
TreeAfter ==
    IF KeySplit(setter.key).err # "" THEN trail[1]
    ELSE setNested(trail[1], PartsOf(setter.key), Scalar(MaxScalar))

\* the trees c.config held between the first write of Set and its last
Intermediate ==
    {trail[n] : n \in {k \in DOMAIN trail : k > 1 /\ (k < Len(trail) \/ setter.pc # "done")}}

\* GetE returned something that neither the tree before the Set nor the tree
\* after it gives
SawIntermediate ==
    /\ getter.pc = "done"
    /\ getter.res # Look(TreeBefore)
    /\ getter.res # Look(TreeAfter)

\* C26: no step of Set or GetE waits for the other thread; between its writes
\* Set leaves in c.config a tree that is neither the tree before nor the tree
\* after, and what GetE returns is what some tree c.config held gives, an
\* intermediate one included; when Set is done the tree is the tree after
C26_IntermediateTreeVisible ==
    /\ \A t \in Intermediate : t # TreeBefore /\ t # TreeAfter
    /\ setter.pc = "done" => TreeNow = TreeAfter
    /\ getter.pc = "done" => \E n \in DOMAIN trail : getter.res = Look(trail[n])
    /\ SawIntermediate => \E t \in Intermediate \cup {trail[n] : n \in DOMAIN trail} :
                              t # TreeBefore /\ t # TreeAfter /\ getter.res = Look(t)
    /\ (setter.pc # "done" /\ getter.pc # "done") =>
           /\ ENABLED (SetStart \/ SetRead \/ SetInstall \/ SetLeaf)
           /\ ENABLED (GetStart \/ GetRead \/ GetLeaf)

\* the fresh empty map installed over the scalar at a, read before b is written:
\* GetE("a.b") finds no key, where the tree before gives a type error and the
\* tree after the value
C26_Witness ==
    /\ SawIntermediate
    /\ setter.key = KeyAB
    /\ getter.key = KeyAB
    /\ TreeBefore = ("a" :> Scalar(1))
    /\ getter.res = Failed("key not found")
    /\ Look(TreeBefore) = Failed("invalid type for key")
    /\ Look(TreeAfter) = Found(Scalar(MaxScalar))

---------------------------------------------------------------------------
(* Claims about the visited set *)

\* the paths of the calls of readConfigFile that are open: the include chain
ChainPaths == {stk[n].path : n \in DOMAIN stk}

\* the visited set is the include chain, and no path is on the chain twice
VisitedIsChain ==
    /\ visited = ChainPaths
    /\ \A m, n \in DOMAIN stk : stk[m].path = stk[n].path => m = n
    /\ StepsDone => visited = {}

\* a call of readConfigFile returns the cycle error exactly when its path is
\* on the chain, and then leaves visited as it found it
CycleIffOnChain ==
    (pending # <<>> /\ pending' = <<>>) =>
        /\ (ret' # <<>> /\ ret'[1].err = "cycle") <=> (pending[1] \in ChainPaths)
        /\ ret' # <<>> => visited' = visited

\* C27: at every moment visited holds exactly the paths of the open calls, so
\* every return, with a tree or with an error, has restored it; the cycle
\* error is raised exactly for a path on the current chain, so a file reached
\* again on another chain is loaded again; the top-level call starts and ends
\* with the empty set
C27_VisitedIsCurrentChain ==
    /\ [](VisitedIsChain)
    /\ [][CycleIffOnChain]_vars

\* the diamond: main.json includes a.yaml and b.yaml, a.yaml includes b.yaml;
\* a.yaml has returned and b.yaml is open a second time, below main.json
C27_Witness ==
    /\ fs["main.json"].include = IncList(<<StrItem("a.yaml"), StrItem("b.yaml")>>)
    /\ fs["a.yaml"].include = IncString("b.yaml")
    /\ fs["b.yaml"].include = NoInclude
    /\ Len(stk) = 2
    /\ stk[1].path = Home("main.json")
    /\ stk[1].items = <<StrItem("b.yaml")>>
    /\ stk[2].path = Home("b.yaml")
    /\ Home("a.yaml") \in seen
    /\ visited = {Home("main.json"), Home("b.yaml")}

---------------------------------------------------------------------------
(* Claims about what Set leaves alone *)

\* the keys GetE is asked for before and after a Set
FrameKeys == {KeyA, KeyAB, KeyB, <<"a", ".", "a">>, <<"b", ".", "a">>}

\* the parts of a key as a path of the tree; "." names the root, the empty path
PathFrom(key) == IF key = Dot THEN <<>> ELSE Strings(KeySplit(key).parts)

IsPrefix(p, q) == Len(p) <= Len(q) /\ SubSeq(q, 1, Len(p)) = p

\* neither key's parts are a prefix of the other's
Unrelated(j, k) == ~IsPrefix(PathFrom(j), PathFrom(k)) /\ ~IsPrefix(PathFrom(k), PathFrom(j))

\* a non-map value lies at a strict prefix of the path p
NonMapOnWay(t, p) ==
    \E n \in 1..(Len(p) - 1) :
        Defined(t, SubSeq(p, 1, n)) /\ At(t, SubSeq(p, 1, n)).kind # "map"

\* what GetE(key) returns when the merged tree is t and nothing else differs
GetEOn(t, key) ==
    LET nested == KeySplit(key) IN
    IF nested.err # "" THEN Failed(nested.err)
    ELSE IF flagChanged(key) THEN Found(FlagValue)
    ELSE IF pflagSetChanged(key) THEN Found(PflagSetValue)
    ELSE IF lookupEnv(nested) THEN Found(EnvValue)
    ELSE LET fromConfig == lookupTree(t, Strings(nested.parts)) IN
         IF fromConfig.err = "" THEN fromConfig
         ELSE LET fromDefaults == lookupTree(defaults, Strings(nested.parts)) IN
              IF fromDefaults.err = "" THEN fromDefaults
              ELSE fromConfig

\* C28: after Set(k, v) every key j unrelated to k gives with GetE what it
\* gave before, provided the tree before held no non-map value at a strict
\* prefix of k; a Set whose key does not parse returns the error and leaves
\* the tree as it was
C28_SetLeavesOtherKeys ==
    /\ \A j \in FrameKeys : GetEOn(config, j) = GetE(j)
    /\ (wrote # <<>> /\ wrote[1] = "Set") =>
           \A j \in FrameKeys :
               (Unrelated(j, wrote[2]) /\ ~NonMapOnWay(wrote[4], PathFrom(wrote[2]))) =>
                   GetE(j) = GetEOn(wrote[4], j)
    /\ (wrote # <<>> /\ wrote[2] = KeyOpen) =>
           /\ wrote[1] \in {"Set failed", "SetDefault failed"}
           /\ wrote[1] = "Set failed" => config = wrote[4]

\* Set("a.b", v) on a tree that holds b and a map at a: GetE("b") and
\* GetE("a.a") are as before
C28_Witness ==
    /\ wrote # <<>>
    /\ wrote[1] = "Set"
    /\ wrote[2] = KeyAB
    /\ wrote[4] = ("a" :> MapV("a" :> Scalar(1))) @@ ("b" :> Scalar(2))
    /\ GetE(KeyB) = Found(Scalar(2))
    /\ GetE(<<"a", ".", "a">>) = Found(Scalar(1))
    /\ GetE(KeyAB) = Found(SetValue)
    /\ env = {}

---------------------------------------------------------------------------
(* DeepMerge called with nil maps *)

\* mutant: a nil dst is returned as it is found
deepMergeNilKept(dv, sv) ==
    IF sv = NilMap \/ dv = NilMap THEN dv ELSE MapV(DeepMerge(dv.mv, sv.mv))

\* DeepMerge on arguments that are a map or the nil map: a nil dst becomes
\* a fresh empty map, a nil src returns dst
deepMergeNil(dv, sv) ==
    LET d == IF dv = NilMap THEN MapV(EmptyTree) ELSE dv IN
    IF sv = NilMap THEN d ELSE MapV(DeepMerge(d.mv, sv.mv))

---------------------------------------------------------------------------
(* Claims about merging twice *)

\* C29: merging src into the merged tree again changes nothing, a tree
\* merged into itself gives itself, a nil src returns dst as it is and a nil
\* dst returns a map that holds the tree of src
C29_MergeIdempotent ==
    /\ deepMergeNil(MapV(dst), NilMap) = MapV(dst)
    /\ deepMergeNil(NilMap, MapV(src)) = MapV(src)
    /\ deepMergeNil(NilMap, NilMap).mv = NilMap.mv
    /\ deepMergeNil(MapV(dst), MapV(dst)) = MapV(dst)
    /\ mphase = "merged" =>
           /\ merged = deepMergeNil(MapV(dst), MapV(src)).mv
           /\ DeepMerge(merged, src) = merged
           /\ dst = src => merged = dst

\* nested maps were combined and src changed a leaf of dst, so the merged
\* tree differs from both arguments
C29_Witness ==
    /\ mphase = "merged"
    /\ dst = ("a" :> MapV("a" :> Scalar(1))) @@ ("b" :> Scalar(1))
    /\ src = ("a" :> MapV("b" :> Scalar(2))) @@ ("b" :> SeqV(<<1, 2>>))
    /\ merged = ("a" :> MapV(("a" :> Scalar(1)) @@ ("b" :> Scalar(2)))) @@ ("b" :> SeqV(<<1, 2>>))
    /\ DeepMerge(merged, src) = merged

---------------------------------------------------------------------------
(* Set and ReadConfig in any order *)

\* main.json alone or including a.yaml; a.yaml and b.yaml include nothing
ReloadSystems ==
    {f \in FileSystems :
        /\ f["main.json"].include \in {NoInclude, IncString("a.yaml")}
        /\ f["a.yaml"].include = NoInclude
        /\ f["b.yaml"].include = NoInclude}

ReloadInit == LoadInit /\ fs \in ReloadSystems

ReloadNext == AddSomeFile \/ ReadConfig \/ SetSome

SpecReload == ReloadInit /\ [][ReloadNext]_vars

---------------------------------------------------------------------------
(* Claims about ReadConfig after Set *)

\* the merge, in registration order, of the registered files that load
FilesTree ==
    LET good == SelectSeq(paths, Loads) IN
    MergeAll([i \in DOMAIN good |-> readConfigFile(good[i], {}).tree])

\* C30: whatever Set and ReadConfig calls came before, the tree right after
\* a ReadConfig is the merge of the files that call loaded and of nothing
\* else, so a value written with Set before is gone unless a file holds it,
\* and a ReadConfig that follows with the files unchanged gives the same tree
C30_ReadConfigReplaces ==
    [][ReadConfig =>
          /\ config' = FilesTree
          /\ (wrote # <<>> /\ wrote[1] = "Set" /\ KeySplit(wrote[2]).err = ""
              /\ wrote[2] # Dot) =>
                 lookupTree(config', Strings(KeySplit(wrote[2]).parts))
                     = lookupTree(FilesTree, Strings(KeySplit(wrote[2]).parts))
          /\ (config = FilesTree) => config' = config]_vars

\* Set("a.b", v) was the last write, ReadConfig came after it and loaded
\* main.json, which holds a scalar at a: the written value is gone
C30_Witness ==
    /\ wrote # <<>>
    /\ wrote[1] = "Set"
    /\ wrote[2] = KeyAB
    /\ wrote[4] = EmptyTree
    /\ paths = <<Home("main.json")>>
    /\ readOf = <<paths>>
    /\ config = ("a" :> Scalar(1))
    /\ config = FilesTree

=============================================================================
